---- MODULE Spec2Model ----
(***************************************************************************)
(* Configuration file support of the sample IPP server (server/conf.c):    *)
(* the directive interpreter load_system, serverFinalizeConfiguration with *)
(* the three privacy resolvers, the discovery of print queues in           *)
(* serverLoadConfiguration, and the registry operations serverFindPrinter  *)
(* and serverCleanAllJobs under printer_mutex.                             *)
(***************************************************************************)
EXTENDS Bags, FiniteSets, Integers, Naturals, Sequences, TLC

(***************************************************************************)
(* Static name tables.                                                     *)
(***************************************************************************)

(* add_document_privacy: document-description attributes (conf.c 485-573) *)
document_description ==
  << "compression", "copies-actual", "cover-back-actual",
     "cover-front-actual", "current-page-order", "date-time-at-completed",
     "date-time-at-creation", "date-time-at-processing",
     "detailed-status-messages", "document-access-errors",
     "document-charset", "document-digital-signature", "document-format",
     "document-format-details", "document-format-detected",
     "document-format-version", "document-format-version-detected",
     "document-message", "document-metadata", "document-name",
     "document-natural-language", "document-state", "document-state-message",
     "document-state-reasons", "document-uri", "errors-count",
     "finishings-actual", "finishings-col-actual", "force-front-side-actual",
     "imposition-template-actual", "impressions", "impressions-col",
     "impressions-completed", "impressions-completed-col",
     "impressions-completed-current-copy", "insert-sheet-actual", "k-octets",
     "k-octets-processed", "last-document", "materials-col-actual",
     "media-actual", "media-col-actual", "media-input-tray-check-actual",
     "media-sheets", "media-sheets-col", "media-sheets-completed",
     "media-sheets-completed-col", "more-info",
     "multiple-object-handling-actual", "number-up-actual",
     "orientation-requested-actual", "output-bin-actual",
     "output-device-assigned", "overrides-actual", "page-delivery-actual",
     "page-order-received-actual", "page-ranges-actual", "pages",
     "pages-col", "pages-completed", "pages-completed-col",
     "pages-completed-current-copy", "platform-temperature-actual",
     "presentation-direction-number-up-actual", "print-accuracy-actual",
     "print-base-actual", "print-color-mode-actual",
     "print-content-optimize-actual", "print-objects-actual",
     "print-quality-actual", "print-rendering-intent-actual",
     "print-scaling-actual", "print-supports-actual",
     "printer-resolution-actual", "printer-up-time",
     "separator-sheets-actual", "sheet-completed-copy-number",
     "sides-actual", "time-at-completed", "time-at-creation",
     "time-at-processing", "x-image-position-actual", "x-image-shift-actual",
     "x-side1-image-shift-actual", "x-side2-image-shift-actual",
     "y-image-position-actual", "y-image-shift-actual",
     "y-side1-image-shift-actual", "y-side2-image-shift-actual" >>

(* add_document_privacy: document-template attributes (conf.c 577-624) *)
document_template ==
  << "copies", "cover-back", "cover-front", "feed-orientation", "finishings",
     "finishings-col", "font-name-requested", "font-size-requested",
     "force-front-side", "imposition-template", "insert-sheet",
     "materials-col", "media", "media-col", "media-input-tray-check",
     "multiple-document-handling", "multiple-object-handling", "number-up",
     "orientation-requested", "overrides", "page-delivery",
     "page-order-received", "page-ranges", "pages-per-subset",
     "pdl-init-file", "platform-temperature",
     "presentation-direction-number-up", "print-accuracy", "print-base",
     "print-color-mode", "print-content-optimize", "print-objects",
     "print-quality", "print-rendering-intent", "print-scaling",
     "print-supports", "printer-resolution", "separator-sheets",
     "sheet-collate", "sides", "x-image-position", "x-image-shift",
     "x-side1-image-shift", "x-side2-image-shift", "y-image-position",
     "y-image-shift", "y-side1-image-shift", "y-side2-image-shift" >>

(* add_job_privacy: job-description attributes (conf.c 707-821) *)
job_description ==
  << "compression-supplied", "copies-actual", "cover-back-actual",
     "cover-front-actual", "current-page-order", "date-time-at-completed",
     "date-time-at-creation", "date-time-at-processing",
     "destination-statuses", "document-charset-supplied",
     "document-digital-signature-supplied",
     "document-format-details-supplied", "document-format-supplied",
     "document-message-supplied", "document-metadata",
     "document-name-supplied", "document-natural-language-supplied",
     "document-overrides-actual", "errors-count", "finishings-actual",
     "finishings-col-actual", "force-front-side-actual",
     "imposition-template-actual", "impressions-completed-current-copy",
     "insert-sheet-actual", "job-account-id-actual",
     "job-accounting-sheets-actual", "job-accounting-user-id-actual",
     "job-attribute-fidelity", "job-collation-type",
     "job-collation-type-actual", "job-copies-actual",
     "job-cover-back-actual", "job-cover-front-actual",
     "job-detailed-status-message", "job-document-access-errors",
     "job-error-sheet-actual", "job-finishings-actual",
     "job-finishings-col-actual", "job-hold-until-actual", "job-impressions",
     "job-impressions-col", "job-impressions-completed",
     "job-impressions-completed-col", "job-k-octets",
     "job-k-octets-processed", "job-mandatory-attributes",
     "job-media-sheets", "job-media-sheets-col",
     "job-media-sheets-completed", "job-media-sheets-completed-col",
     "job-message-from-operator", "job-more-info", "job-name",
     "job-originating-user-name", "job-originating-user-uri", "job-pages",
     "job-pages-col", "job-pages-completed", "job-pages-completed-col",
     "job-pages-completed-current-copy", "job-priority-actual",
     "job-save-printer-make-and-model", "job-sheet-message-actual",
     "job-sheets-actual", "job-sheets-col-actual", "job-state",
     "job-state-message", "job-state-reasons", "materials-col-actual",
     "media-actual", "media-col-actual", "media-check-input-tray-actual",
     "multiple-document-handling-actual", "multiple-object-handling-actual",
     "number-of-documents", "number-of-intervening-jobs", "number-up-actual",
     "orientation-requested-actual", "original-requesting-user-name",
     "output-bin-actual", "output-device-assigned", "overrides-actual",
     "page-delivery-actual", "page-order-received-actual",
     "page-ranges-actual", "platform-temperature-actual",
     "presentation-direction-number-up-actual", "print-accuracy-actual",
     "print-base-actual", "print-color-mode-actual",
     "print-content-optimize-actual", "print-objects-actual",
     "print-quality-actual", "print-rendering-intent-actual",
     "print-scaling-actual", "print-supports-actual",
     "printer-resolution-actual", "separator-sheets-actual",
     "sheet-collate-actual", "sheet-completed-copy-number",
     "sheet-completed-document-number", "sides-actual", "time-at-completed",
     "time-at-creation", "time-at-processing", "warnings-count",
     "x-image-position-actual", "x-image-shift-actual",
     "x-side1-image-shift-actual", "x-side2-image-shift-actual",
     "y-image-position-actual", "y-image-shift-actual",
     "y-side1-image-shift-actual", "y-side2-image-shift-actual" >>

(* add_job_privacy: job-template attributes; the initializer has no comma between
   "job-accounting-sheets" and "job-accounting-user-id", so C concatenates the
   two adjacent literals into one element (conf.c 825-902) *)
job_template ==
  << "confirmation-sheet-print", "copies", "cover-back", "cover-front",
     "cover-sheet-info", "destination-uris", "feed-orientation",
     "finishings", "finishings-col", "font-name-requested",
     "font-size-requested", "force-front-side", "imposition-template",
     "insert-sheet", "job-account-id",
     "job-accounting-sheetsjob-accounting-user-id", "job-copies",
     "job-cover-back", "job-cover-front", "job-delay-output-until",
     "job-delay-output-until-time", "job-error-action", "job-error-sheet",
     "job-finishings", "job-finishings-col", "job-hold-until",
     "job-hold-until-time", "job-message-to-operator", "job-phone-number",
     "job-priority", "job-recipient-name", "job-save-disposition",
     "job-sheets", "job-sheets-col", "materials-col", "media", "media-col",
     "media-input-tray-check", "multiple-document-handling",
     "multiple-object-handling", "number-of-retries", "number-up",
     "orientation-requested", "output-bin", "output-device", "overrides",
     "page-delivery", "page-order-received", "page-ranges",
     "pages-per-subset", "pdl-init-file", "platform-temperature",
     "presentation-direction-number-up", "print-accuracy", "print-base",
     "print-color-mode", "print-content-optimize", "print-objects",
     "print-quality", "print-rendering-intent", "print-scaling",
     "print-supports", "printer-resolution", "proof-print", "retry-interval",
     "retry-timeout", "separator-sheets", "sheet-collate", "sides",
     "x-image-position", "x-image-shift", "x-side1-image-shift",
     "x-side2-image-shift", "y-image-position", "y-image-shift",
     "y-side1-image-shift", "y-side2-image-shift" >>

(* add_subscription_privacy: subscription-description attributes (conf.c 985-987) *)
subscription_description ==
  << "notify-lease-expiration-time", "notify-sequence-number",
     "notify-subscriber-user-name" >>

(* add_subscription_privacy: subscription-template attributes (conf.c 991-999) *)
subscription_template ==
  << "notify-attributes", "notify-charset", "notify-events",
     "notify-lease-duration", "notify-natural-language",
     "notify-pull-method", "notify-recipient-uri", "notify-time-interval",
     "notify-user-data" >>

(* attr_cb: Ignored attributes (conf.c 1081-1127) *)
ignored ==
  << "attributes-charset", "attributes-natural-language",
     "charset-configured", "charset-supported", "device-service-count",
     "device-uuid", "document-format-varying-attributes",
     "job-settable-attributes-supported", "printer-alert",
     "printer-alert-description", "printer-camera-image-uri",
     "printer-charge-info", "printer-charge-info-uri",
     "printer-config-change-date-time", "printer-config-change-time",
     "printer-current-time", "printer-detailed-status-messages",
     "printer-dns-sd-name", "printer-fax-log-uri",
     "printer-get-attributes-supported", "printer-icons", "printer-id",
     "printer-is-accepting-jobs", "printer-message-date-time",
     "printer-message-from-operator", "printer-message-time",
     "printer-more-info", "printer-service-type",
     "printer-settable-attributes-supported", "printer-state",
     "printer-state-message", "printer-state-reasons",
     "printer-static-resource-directory-uri",
     "printer-static-resource-k-octets-free",
     "printer-static-resource-k-octets-supported",
     "printer-strings-languages-supported", "printer-strings-uri",
     "printer-supply-info-uri", "printer-up-time", "printer-uri-supported",
     "printer-xri-supported", "queued-job-count",
     "uri-authentication-supported", "uri-security-supported",
     "xri-authentication-supported", "xri-security-supported",
     "xri-uri-scheme-supported" >>


(***************************************************************************)
(* Bounds of the model.                                                    *)
(***************************************************************************)
\* longest directive file read by load_system, in lines
MaxLines == 2
\* most entries cupsDirRead returns for one directory
MaxEntries == 2
\* serving threads calling serverFindPrinter
MaxFinders == 2
\* most comma-separated tokens of a privacy-attributes value given to a resolver
MaxTokens == 2
\* most keywords, each with the tokens that follow it, of a definition file
MaxItems == 2

(***************************************************************************)
(* C values.  A pointer is NULL or Ptr(v); a string that the code scans    *)
(* character by character is a sequence of symbols, each symbol a maximal  *)
(* run of ordinary characters (a word) or one separator "," or ":".        *)
(***************************************************************************)
NULL == << >>

Ptr(v) == << v >>

Deref(p) == p[1]

\* tolower() on the words of the model that contain upper-case letters
Lower ==
  [ w \in { "Authentication", "AuthAdminGroup", "AuthName", "DataDirectory",
            "DefaultPrinter", "DEFAULTPRINTER", "DocumentPrivacyAttributes",
            "DocumentPrivacyScope", "JobPrivacyAttributes",
            "JobPrivacyScope", "KeepFiles", "Listen",
            "MaxJobs", "SpoolDirectory",
            "SubscriptionPrivacyAttributes", "SubscriptionPrivacyScope",
            "FooBar", "YES", "Off", "True",
            "AuthPrintGroup", "AuthProxyGroup", "Command", "DeviceURI",
            "OutputFormat", "Make", "Model", "Strings", "STRINGS", "Bogus" } |->
      CASE w = "Authentication" -> "authentication"
        [] w = "AuthAdminGroup" -> "authadmingroup"
        [] w = "AuthName" -> "authname"
        [] w = "DataDirectory" -> "datadirectory"
        [] w = "DefaultPrinter" -> "defaultprinter"
        [] w = "DEFAULTPRINTER" -> "defaultprinter"
        [] w = "DocumentPrivacyAttributes" -> "documentprivacyattributes"
        [] w = "DocumentPrivacyScope" -> "documentprivacyscope"
        [] w = "JobPrivacyAttributes" -> "jobprivacyattributes"
        [] w = "JobPrivacyScope" -> "jobprivacyscope"
        [] w = "KeepFiles" -> "keepfiles"
        [] w = "Listen" -> "listen"
        [] w = "MaxJobs" -> "maxjobs"
        [] w = "SpoolDirectory" -> "spooldirectory"
        [] w = "SubscriptionPrivacyAttributes" -> "subscriptionprivacyattributes"
        [] w = "SubscriptionPrivacyScope" -> "subscriptionprivacyscope"
        [] w = "FooBar" -> "foobar"
        [] w = "YES" -> "yes"
        [] w = "Off" -> "off"
        [] w = "True" -> "true"
        [] w = "AuthPrintGroup" -> "authprintgroup"
        [] w = "AuthProxyGroup" -> "authproxygroup"
        [] w = "Command" -> "command"
        [] w = "DeviceURI" -> "deviceuri"
        [] w = "OutputFormat" -> "outputformat"
        [] w = "Make" -> "make"
        [] w = "Model" -> "model"
        [] w = "Strings" -> "strings"
        [] w = "STRINGS" -> "strings"
        [] w = "Bogus" -> "bogus" ]

Fold(w) == IF w \in DOMAIN Lower THEN Lower[w] ELSE w

\* _cups_strcasecmp(a, b) == 0 for two words
StrCaseEq(a, b) == Fold(a) = Fold(b)

\* _cups_strcasecmp(value, word) == 0 for a scanned value
ValueCaseEq(v, w) == Len(v) = 1 /\ StrCaseEq(v[1], w)

\* strcmp(value, word) == 0 for a scanned value
ValueEq(v, w) == Len(v) = 1 /\ v[1] = w

\* isdigit() of the first character of a word
DigitWords == { "10", "20", "8631" }

IsDigit(w) == w \in DigitWords

atoi(w) == CASE w = "10" -> 10 [] w = "20" -> 20 [] w = "8631" -> 8631 [] OTHER -> 0

\* getgrnam(): the groups of the operating system's group database
GroupDB == { "wheel", "staff" }

getgrnam(v) == IF Len(v) = 1 /\ v[1] \in GroupDB THEN Ptr(v[1]) ELSE NULL

SERVER_GROUP_NONE == "SERVER_GROUP_NONE"

SERVER_GROUP_WHEEL == "wheel"

SERVER_SCOPE_DEFAULT == "default"

SERVER_SCOPE_ALL == "all"

\* 8000 + getuid() % 1000, for the uid the server runs as
UidPort == 8501


(***************************************************************************)
(* The server configuration: the globals load_system assigns.              *)
(***************************************************************************)
InitConf ==
  [ Authentication |-> 0,
    AuthAdminGroup |-> SERVER_GROUP_NONE,
    AuthName |-> NULL,
    DataDirectory |-> NULL,
    DefaultPrinter |-> NULL,
    DocumentPrivacyAttributes |-> NULL,
    DocumentPrivacyScope |-> NULL,
    JobPrivacyAttributes |-> NULL,
    JobPrivacyScope |-> NULL,
    KeepFiles |-> 0,
    Listeners |-> << >>,
    MaxJobs |-> 0,
    SpoolDirectory |-> NULL,
    SubscriptionPrivacyAttributes |-> NULL,
    SubscriptionPrivacyScope |-> NULL ]

\* result of one pass of the loop of load_system
Line(c, st, m) == [ conf |-> c, status |-> st, msg |-> m ]

\* the directives that may be given only once, by their folded names
SetOnce ==
  { "DefaultPrinter", "DocumentPrivacyAttributes", "DocumentPrivacyScope",
    "JobPrivacyAttributes", "JobPrivacyScope",
    "SubscriptionPrivacyAttributes", "SubscriptionPrivacyScope" }

\* set_once without the test for an earlier occurrence
set_once_overwrite(c, field, v) == Line([c EXCEPT ![field] = Ptr(v)], 1, "")

\* set_once assigning the field before it reports the earlier occurrence
set_once_clobber(c, field, v) ==
  IF c[field] # NULL
    THEN Line([c EXCEPT ![field] = Ptr(v)], 0, "Extra")
    ELSE Line([c EXCEPT ![field] = Ptr(v)], 1, "")

\* a directive whose field is tested for NULL before strdup(value)
set_once(c, field, v) ==
  IF c[field] # NULL
    THEN Line(c, 0, "Extra")
    ELSE Line([c EXCEPT ![field] = Ptr(v)], 1, "")

\* strrchr(value, ':'): index of the last ":" symbol, 0 for NULL
strrchr_colon(v) ==
  IF \E i \in 1..Len(v) : v[i] = ":"
    THEN CHOOSE i \in 1..Len(v) : v[i] = ":" /\ \A j \in (i+1)..Len(v) : v[j] # ":"
    ELSE 0

\* the Listen directive; listenOk is the result of serverCreateListeners
listen(c, v, listenOk) ==
  LET ptr == strrchr_colon(v)
      port == IF ptr # 0 THEN atoi(v[ptr + 1]) ELSE UidPort
      host == IF ptr # 0 THEN SubSeq(v, 1, ptr - 1) ELSE v
  IN  IF ptr # 0 /\ ~(ptr < Len(v) /\ IsDigit(v[ptr + 1]))
        THEN Line(c, 0, "Bad Listen value")
        ELSE IF ~listenOk
          THEN Line(c, 0, "")
          ELSE Line([c EXCEPT !.Listeners = Append(@, [host |-> host, port |-> port])], 1, "")

\* one pass of the loop with status = 0 and break in the last else branch
load_system_line_unknown_fatal(c, name, val, accessOk, listenOk) ==
  LET v == Deref(val) IN
  IF val = NULL THEN Line(c, 0, "Missing value")
  ELSE IF StrCaseEq(name, "Authentication") THEN
    IF ValueCaseEq(v, "on") \/ ValueCaseEq(v, "yes")
      THEN Line([c EXCEPT !.Authentication = 1], 1, "")
    ELSE IF ValueCaseEq(v, "off") \/ ValueCaseEq(v, "no")
      THEN Line([c EXCEPT !.Authentication = 0], 1, "")
    ELSE Line(c, 0, "Unknown Authentication")
  ELSE IF StrCaseEq(name, "AuthAdminGroup") THEN
    IF getgrnam(v) = NULL
      THEN Line(c, 0, "Unable to find AuthAdminGroup")
      ELSE Line([c EXCEPT !.AuthAdminGroup = Deref(getgrnam(v))], 1, "")
  ELSE IF StrCaseEq(name, "AuthName") THEN
    Line([c EXCEPT !.AuthName = Ptr(v)], 1, "")
  ELSE IF StrCaseEq(name, "DataDirectory") THEN
    IF ~accessOk
      THEN Line(c, 0, "Unable to access DataDirectory")
      ELSE Line([c EXCEPT !.DataDirectory = Ptr(v)], 1, "")
  ELSE IF StrCaseEq(name, "DefaultPrinter") THEN
    set_once(c, "DefaultPrinter", v)
  ELSE IF StrCaseEq(name, "DocumentPrivacyAttributes") THEN
    set_once(c, "DocumentPrivacyAttributes", v)
  ELSE IF StrCaseEq(name, "DocumentPrivacyScope") THEN
    set_once(c, "DocumentPrivacyScope", v)
  ELSE IF StrCaseEq(name, "JobPrivacyAttributes") THEN
    set_once(c, "JobPrivacyAttributes", v)
  ELSE IF StrCaseEq(name, "JobPrivacyScope") THEN
    set_once(c, "JobPrivacyScope", v)
  ELSE IF StrCaseEq(name, "KeepFiles") THEN
    Line([c EXCEPT !.KeepFiles =
            IF ValueCaseEq(v, "yes") \/ ValueCaseEq(v, "true") \/ ValueCaseEq(v, "on")
              THEN 1 ELSE 0], 1, "")
  ELSE IF StrCaseEq(name, "Listen") THEN
    listen(c, v, listenOk)
  ELSE IF StrCaseEq(name, "MaxJobs") THEN
    IF ~IsDigit(v[1])
      THEN Line(c, 0, "Bad MaxJobs value")
      ELSE Line([c EXCEPT !.MaxJobs = atoi(v[1])], 1, "")
  ELSE IF StrCaseEq(name, "SpoolDirectory") THEN
    IF ~accessOk
      THEN Line(c, 0, "Unable to access SpoolDirectory")
      ELSE Line([c EXCEPT !.SpoolDirectory = Ptr(v)], 1, "")
  ELSE IF StrCaseEq(name, "SubscriptionPrivacyAttributes") THEN
    set_once(c, "SubscriptionPrivacyAttributes", v)
  ELSE IF StrCaseEq(name, "SubscriptionPrivacyScope") THEN
    set_once(c, "SubscriptionPrivacyScope", v)
  ELSE Line(c, 0, "Unknown directive")

\* one pass of the while loop of load_system over the directive `name' and
\* its value `val' (NULL when the line has none); accessOk and listenOk are
\* the results of access() and serverCreateListeners()
load_system_line(c, name, val, accessOk, listenOk) ==
  LET v == Deref(val) IN
  IF val = NULL THEN Line(c, 0, "Missing value")
  ELSE IF StrCaseEq(name, "Authentication") THEN
    IF ValueCaseEq(v, "on") \/ ValueCaseEq(v, "yes")
      THEN Line([c EXCEPT !.Authentication = 1], 1, "")
    ELSE IF ValueCaseEq(v, "off") \/ ValueCaseEq(v, "no")
      THEN Line([c EXCEPT !.Authentication = 0], 1, "")
    ELSE Line(c, 0, "Unknown Authentication")
  ELSE IF StrCaseEq(name, "AuthAdminGroup") THEN
    IF getgrnam(v) = NULL
      THEN Line(c, 0, "Unable to find AuthAdminGroup")
      ELSE Line([c EXCEPT !.AuthAdminGroup = Deref(getgrnam(v))], 1, "")
  ELSE IF StrCaseEq(name, "AuthName") THEN
    Line([c EXCEPT !.AuthName = Ptr(v)], 1, "")
  ELSE IF StrCaseEq(name, "DataDirectory") THEN
    IF ~accessOk
      THEN Line(c, 0, "Unable to access DataDirectory")
      ELSE Line([c EXCEPT !.DataDirectory = Ptr(v)], 1, "")
  ELSE IF StrCaseEq(name, "DefaultPrinter") THEN
    set_once(c, "DefaultPrinter", v)
  ELSE IF StrCaseEq(name, "DocumentPrivacyAttributes") THEN
    set_once(c, "DocumentPrivacyAttributes", v)
  ELSE IF StrCaseEq(name, "DocumentPrivacyScope") THEN
    set_once(c, "DocumentPrivacyScope", v)
  ELSE IF StrCaseEq(name, "JobPrivacyAttributes") THEN
    set_once(c, "JobPrivacyAttributes", v)
  ELSE IF StrCaseEq(name, "JobPrivacyScope") THEN
    set_once(c, "JobPrivacyScope", v)
  ELSE IF StrCaseEq(name, "KeepFiles") THEN
    Line([c EXCEPT !.KeepFiles =
            IF ValueCaseEq(v, "yes") \/ ValueCaseEq(v, "true") \/ ValueCaseEq(v, "on")
              THEN 1 ELSE 0], 1, "")
  ELSE IF StrCaseEq(name, "Listen") THEN
    listen(c, v, listenOk)
  ELSE IF StrCaseEq(name, "MaxJobs") THEN
    IF ~IsDigit(v[1])
      THEN Line(c, 0, "Bad MaxJobs value")
      ELSE Line([c EXCEPT !.MaxJobs = atoi(v[1])], 1, "")
  ELSE IF StrCaseEq(name, "SpoolDirectory") THEN
    IF ~accessOk
      THEN Line(c, 0, "Unable to access SpoolDirectory")
      ELSE Line([c EXCEPT !.SpoolDirectory = Ptr(v)], 1, "")
  ELSE IF StrCaseEq(name, "SubscriptionPrivacyAttributes") THEN
    set_once(c, "SubscriptionPrivacyAttributes", v)
  ELSE IF StrCaseEq(name, "SubscriptionPrivacyScope") THEN
    set_once(c, "SubscriptionPrivacyScope", v)
  ELSE Line(c, 1, "Unknown directive")


(***************************************************************************)
(* The privacy resolvers.  An array created with strcmp as its comparison  *)
(* function is kept sorted and keeps equal elements, so it is determined   *)
(* by how many copies of each string it holds: a bag of strings.           *)
(***************************************************************************)
\* cupsArrayNew3(strcmp, ...): a new, empty array
cupsArrayNew3 == EmptyBag

\* cupsArrayAdd(a, e) on a string array: e is inserted after the elements
\* that compare equal to it
cupsArrayAdd(a, e) == a (+) SetToBag({e})

\* a table as the bag of its elements
table_bag(table) ==
  [e \in { table[i] : i \in 1..Len(table) } |->
     Cardinality({ i \in 1..Len(table) : table[i] = e })]

DocumentDescription == table_bag(document_description)

DocumentTemplate == table_bag(document_template)

JobDescription == table_bag(job_description)

JobTemplate == table_bag(job_template)

SubscriptionDescription == table_bag(subscription_description)

SubscriptionTemplate == table_bag(subscription_template)

\* for (i = 0; i < sizeof(table) / sizeof(table[0]); i ++) cupsArrayAdd(a, table[i]):
\* every element of the table is added once per occurrence in the table
add_table(a, table) == a (+) table

\* ippAddString(ipp, IPP_TAG_PRINTER, IPP_TAG_KEYWORD, name, NULL, value)
ippAddString(ipp, name, value) == Append(ipp, [name |-> name, values |-> << value >>])

\* ippSetString(ipp, &attr, ippGetCount(attr), value), attr being the
\* attribute at index k of ipp
ippSetString(ipp, k, value) == [ipp EXCEPT ![k].values = Append(@, value)]

\* index just past the word that starts at symbol i of value v: the scan
\* while (*ptr && *ptr != ',') ptr ++
scan_word(v, i) == IF i <= Len(v) /\ v[i] # "," THEN i + 1 ELSE i

\* the list branch of a resolver: the while (*ptr) loop over the copy of the
\* attributes value, from symbol ptr on; privattrs is the index in ipp of
\* the attribute created for the list, 0 while it is NULL
\* the list branch without the test that skips "all" and "none"
RECURSIVE privacy_list_noskip(_, _, _, _, _, _, _, _, _, _)
privacy_list_noskip(v, ptr, ipp, privattrs, array, attrname, description, template, descname, templname) ==
  IF ptr > Len(v) THEN [ipp |-> ipp, array |-> array]
  ELSE
    LET end == scan_word(v, ptr)
        start == IF end = ptr THEN "" ELSE v[ptr]
        next == IF end <= Len(v) THEN end + 1 ELSE end
        ipp1 == IF privattrs = 0 THEN ippAddString(ipp, attrname, start)
                                 ELSE ippSetString(ipp, privattrs, start)
        priv1 == IF privattrs = 0 THEN Len(ipp1) ELSE privattrs
        array1 == IF start = "default"
                    THEN add_table(add_table(array, description), template)
                  ELSE IF start = descname THEN add_table(array, description)
                  ELSE IF start = templname THEN add_table(array, template)
                  ELSE cupsArrayAdd(array, start)
    IN  privacy_list_noskip(v, next, ipp1, priv1, array1, attrname, description, template, descname, templname)

\* the list branch with "default" expanded to the description table only
RECURSIVE privacy_list_default_description(_, _, _, _, _, _, _, _, _, _)
privacy_list_default_description(v, ptr, ipp, privattrs, array, attrname, description, template, descname, templname) ==
  IF ptr > Len(v) THEN [ipp |-> ipp, array |-> array]
  ELSE
    LET end == scan_word(v, ptr)
        start == IF end = ptr THEN "" ELSE v[ptr]
        next == IF end <= Len(v) THEN end + 1 ELSE end
        ipp1 == IF privattrs = 0 THEN ippAddString(ipp, attrname, start)
                                 ELSE ippSetString(ipp, privattrs, start)
        priv1 == IF privattrs = 0 THEN Len(ipp1) ELSE privattrs
        array1 == IF start = "default" THEN add_table(array, description)
                  ELSE IF start = descname THEN add_table(array, description)
                  ELSE IF start = templname THEN add_table(array, template)
                  ELSE cupsArrayAdd(array, start)
    IN  IF start = "all" \/ start = "none"
          THEN privacy_list_default_description(v, next, ipp, privattrs, array, attrname, description, template, descname, templname)
          ELSE privacy_list_default_description(v, next, ipp1, priv1, array1, attrname, description, template, descname, templname)

RECURSIVE privacy_list(_, _, _, _, _, _, _, _, _, _)
privacy_list(v, ptr, ipp, privattrs, array, attrname, description, template, descname, templname) ==
  IF ptr > Len(v) THEN [ipp |-> ipp, array |-> array]
  ELSE
    LET end == scan_word(v, ptr)
        start == IF end = ptr THEN "" ELSE v[ptr]
        next == IF end <= Len(v) THEN end + 1 ELSE end
        ipp1 == IF privattrs = 0 THEN ippAddString(ipp, attrname, start)
                                 ELSE ippSetString(ipp, privattrs, start)
        priv1 == IF privattrs = 0 THEN Len(ipp1) ELSE privattrs
        array1 == IF start = "default"
                    THEN add_table(add_table(array, description), template)
                  ELSE IF start = descname THEN add_table(array, description)
                  ELSE IF start = templname THEN add_table(array, template)
                  ELSE cupsArrayAdd(array, start)
    IN  IF start = "all" \/ start = "none"
          THEN privacy_list(v, next, ipp, privattrs, array, attrname, description, template, descname, templname)
          ELSE privacy_list(v, next, ipp1, priv1, array1, attrname, description, template, descname, templname)

\* the resolver whose "all" branch adds the description table only
add_privacy_all_description(ipp, attrs, scope, attrname, scopename, description, template, descname, templname) ==
  LET r == IF ValueEq(attrs, "none")
             THEN [ipp |-> ippAddString(ipp, attrname, "none"), array |-> NULL]
           ELSE IF ValueEq(attrs, "all")
             THEN [ipp |-> ippAddString(ipp, attrname, "all"),
                   array |-> Ptr(add_table(cupsArrayNew3, description))]
           ELSE LET l == privacy_list(attrs, 1, ipp, 0, cupsArrayNew3, attrname,
                                      description, template, descname, templname)
                IN  [ipp |-> l.ipp, array |-> Ptr(l.array)]
  IN  [ipp |-> ippAddString(r.ipp, scopename, scope), array |-> r.array]

\* the body shared by the three resolvers: attrs and scope are the
\* category's two configuration strings; the result is the new
\* PrivacyAttributes and the category's privacy array (NULL if not created)
add_privacy(ipp, attrs, scope, attrname, scopename, description, template, descname, templname) ==
  LET r == IF ValueEq(attrs, "none")
             THEN [ipp |-> ippAddString(ipp, attrname, "none"), array |-> NULL]
           ELSE IF ValueEq(attrs, "all")
             THEN [ipp |-> ippAddString(ipp, attrname, "all"),
                   array |-> Ptr(add_table(add_table(cupsArrayNew3, description), template))]
           ELSE LET l == privacy_list(attrs, 1, ipp, 0, cupsArrayNew3, attrname,
                                      description, template, descname, templname)
                IN  [ipp |-> l.ipp, array |-> Ptr(l.array)]
  IN  [ipp |-> ippAddString(r.ipp, scopename, scope), array |-> r.array]

add_document_privacy(ipp, c) ==
  add_privacy(ipp, Deref(c.DocumentPrivacyAttributes), Deref(c.DocumentPrivacyScope),
              "document-privacy-attributes", "document-privacy-scope",
              DocumentDescription, DocumentTemplate,
              "document-description", "document-template")

add_job_privacy(ipp, c) ==
  add_privacy(ipp, Deref(c.JobPrivacyAttributes), Deref(c.JobPrivacyScope),
              "job-privacy-attributes", "job-privacy-scope",
              JobDescription, JobTemplate,
              "job-description", "job-template")

add_subscription_privacy(ipp, c) ==
  add_privacy(ipp, Deref(c.SubscriptionPrivacyAttributes), Deref(c.SubscriptionPrivacyScope),
              "subscription-privacy-attributes", "subscription-privacy-scope",
              SubscriptionDescription, SubscriptionTemplate,
              "subscription-description", "subscription-template")


(***************************************************************************)
(* serverFinalizeConfiguration.  mkdirOk is the result of creating the     *)
(* default data directory, listenOk that of serverCreateListeners.  The    *)
(* host name, the TLS credentials and the DNS-SD set-up are left out; the  *)
(* default listener is the one of a server named "localhost".              *)
(***************************************************************************)
\* the default assigned without the test for NULL
default_to_always(c, field, dflt) == [c EXCEPT ![field] = Ptr(dflt)]

\* if (!field) field = strdup(dflt)
default_to(c, field, dflt) == IF c[field] = NULL THEN [c EXCEPT ![field] = Ptr(dflt)] ELSE c

\* the defaults of the Authentication branch and of its else branch
privacy_defaults(c) ==
  LET scope == IF c.Authentication # 0 THEN << SERVER_SCOPE_DEFAULT >> ELSE << SERVER_SCOPE_ALL >>
      attrs == IF c.Authentication # 0 THEN << "default" >> ELSE << "none" >>
      c1 == IF c.Authentication # 0
              THEN default_to([c EXCEPT !.AuthAdminGroup =
                                 IF @ = SERVER_GROUP_NONE THEN SERVER_GROUP_WHEEL ELSE @],
                              "AuthName", << "Printing" >>)
              ELSE c
      c2 == default_to(default_to(c1, "DocumentPrivacyScope", scope), "DocumentPrivacyAttributes", attrs)
      c3 == default_to(default_to(c2, "JobPrivacyScope", scope), "JobPrivacyAttributes", attrs)
  IN  default_to(default_to(c3, "SubscriptionPrivacyScope", scope), "SubscriptionPrivacyAttributes", attrs)

\* the result: the return value, the configuration, PrivacyAttributes and
\* the three privacy arrays; resolved tells whether the resolvers were run
serverFinalizeConfiguration(c, mkdirOk, listenOk) ==
  IF c.DataDirectory = NULL /\ ~mkdirOk
    THEN [ret |-> 0, conf |-> c, resolved |-> FALSE, ipp |-> << >>,
          document |-> NULL, job |-> NULL, subscription |-> NULL]
    ELSE
      LET c1 == default_to(c, "DataDirectory", << "/tmp/ippserver.pid" >>)
          c2 == default_to(c1, "SpoolDirectory", Deref(c1.DataDirectory))
          c3 == privacy_defaults(c2)
          d == add_document_privacy(<< >>, c3)
          j == add_job_privacy(d.ipp, c3)
          u == add_subscription_privacy(j.ipp, c3)
          c4 == IF c3.Listeners = << >> /\ listenOk
                  THEN [c3 EXCEPT !.Listeners = << [host |-> << "localhost" >>, port |-> UidPort] >>]
                  ELSE c3
      IN  [ret |-> IF c3.Listeners = << >> /\ ~listenOk THEN 0 ELSE 1,
           conf |-> c4, resolved |-> TRUE, ipp |-> u.ipp,
           document |-> d.array, job |-> j.array, subscription |-> u.array]

(***************************************************************************)
(* Strings compared with strcmp are sequences of character codes.          *)
(***************************************************************************)
\* "/ipp/print"
GenericResource == << 47, 105, 112, 112, 47, 112, 114, 105, 110, 116 >>

\* "/ipp/print/"
Prefix2D == << 47, 105, 112, 112, 47, 112, 114, 105, 110, 116, 47 >>

\* "/ipp/print3d/"
Prefix3D == << 47, 105, 112, 112, 47, 112, 114, 105, 110, 116, 51, 100, 47 >>

\* ".conf"
DotConf == << 46, 99, 111, 110, 102 >>

\* ".png"
DotPng == << 46, 112, 110, 103 >>

\* the sign of strcmp(a, b): decided by the first character in which the
\* strings differ, the end of the shorter string counting as character 0
strcmp(a, b) ==
  LET n == IF Len(a) < Len(b) THEN Len(a) ELSE Len(b)
      differ == { i \in 1..n : a[i] # b[i] }
  IN  IF differ = {}
        THEN IF Len(a) < Len(b) THEN 0 - 1 ELSE IF Len(a) > Len(b) THEN 1 ELSE 0
        ELSE LET i == CHOOSE d \in differ : \A e \in differ : d <= e
             IN  IF a[i] < b[i] THEN 0 - 1 ELSE 1

\* strstr(a, b) != NULL
strstr(a, b) == \E i \in 1..(Len(a) - Len(b) + 1) : SubSeq(a, i, i + Len(b) - 1) = b

\* (ptr = filename + strlen(filename) - 5) >= filename && !strcmp(ptr, ".conf")
is_conf(filename) ==
  Len(filename) >= 5 /\ SubSeq(filename, Len(filename) - 4, Len(filename)) = DotConf

\* the file name after *ptr = '\0'
base_name(filename) == SubSeq(filename, 1, Len(filename) - 5)

\* the resource built with the 2-D prefix in both loops
make_resource_2d(dir, name) == Prefix2D \o name

\* snprintf(resource, sizeof(resource), "/ipp/print/%s" or "/ipp/print3d/%s", dent->filename)
make_resource(dir, name) == IF dir = "print" THEN Prefix2D \o name ELSE Prefix3D \o name

\* compare_printers with its arguments exchanged
compare_printers_reversed(a, b) == strcmp(b.resource, a.resource)

compare_printers(a, b) == strcmp(a.resource, b.resource)

\* cupsArrayAdd(Printers, printer) on the array sorted by compare_printers:
\* the printer goes after every element that does not compare greater
cupsArrayAddPrinter(a, printer) ==
  LET n == Cardinality({ i \in 1..Len(a) : compare_printers(a[i], printer) <= 0 })
  IN  SubSeq(a, 1, n) \o << printer >> \o SubSeq(a, n + 1, Len(a))

\* cupsArrayCount(a)
cupsArrayCount(a) == Len(a)

\* cupsArrayFirst(a): NULL for an empty (or never created) array
cupsArrayFirst(a) == IF a = << >> THEN NULL ELSE Ptr(a[1])

\* cupsArrayFind(Printers, &key): the first element comparing equal, or NULL
cupsArrayFind(a, key) ==
  IF \E i \in 1..Len(a) : compare_printers(key, a[i]) = 0
    THEN Ptr(a[CHOOSE i \in 1..Len(a) : compare_printers(key, a[i]) = 0
                    /\ \A j \in 1..(i - 1) : compare_printers(key, a[j]) # 0])
    ELSE NULL

\* the body of serverFindPrinter between lock and unlock: the set of its
\* outcomes.  With nothing registered and resource "/ipp/print", match is
\* NULL and match->resource is read: the thread then either faults or goes on
\* with match == NULL
Outcome(crash, match) == [crash |-> crash, match |-> match]

\* serverFindPrinter without the comparison of the first printer's resource
find_printer_first(a, resource) ==
  IF cupsArrayCount(a) = 1 \/ strcmp(resource, GenericResource) = 0
    THEN LET match == cupsArrayFirst(a)
         IN  IF match = NULL
               THEN { Outcome(TRUE, NULL), Outcome(FALSE, NULL) }
               ELSE { Outcome(FALSE, match) }
    ELSE { Outcome(FALSE, cupsArrayFind(a, [resource |-> resource])) }

\* serverFindPrinter taking the first-printer branch for any non-empty registry
find_printer_nonempty(a, resource) ==
  IF cupsArrayCount(a) >= 1 \/ strcmp(resource, GenericResource) = 0
    THEN LET match == cupsArrayFirst(a)
         IN  IF match = NULL
               THEN { Outcome(TRUE, NULL), Outcome(FALSE, NULL) }
               ELSE IF strcmp(Deref(match).resource, resource) # 0
                       /\ strcmp(resource, GenericResource) # 0
                 THEN { Outcome(FALSE, NULL) }
                 ELSE { Outcome(FALSE, match) }
    ELSE { Outcome(FALSE, cupsArrayFind(a, [resource |-> resource])) }

find_printer(a, resource) ==
  IF cupsArrayCount(a) = 1 \/ strcmp(resource, GenericResource) = 0
    THEN LET match == cupsArrayFirst(a)
         IN  IF match = NULL
               THEN { Outcome(TRUE, NULL), Outcome(FALSE, NULL) }
               ELSE IF strcmp(Deref(match).resource, resource) # 0
                       /\ strcmp(resource, GenericResource) # 0
                 THEN { Outcome(FALSE, NULL) }
                 ELSE { Outcome(FALSE, match) }
    ELSE { Outcome(FALSE, cupsArrayFind(a, [resource |-> resource])) }

(***************************************************************************)
(* serverLoadAttributes.  A definition file is NULL if it cannot be        *)
(* opened, else the sequence of its tokens; the ATTR lines, which the      *)
(* parser handles itself, and the icon are left out.                       *)
(***************************************************************************)
\* memset(&pinfo, 0, sizeof(pinfo)) and the two group assignments
InitPinfo ==
  [ print_group |-> SERVER_GROUP_NONE,
    proxy_group |-> SERVER_GROUP_NONE,
    command |-> NULL,
    device_uri |-> NULL,
    output_format |-> NULL,
    make |-> NULL,
    model |-> NULL,
    strings |-> << >>,
    attrs |-> NULL ]

\* the characters of the language and attribute names of the model
chars(w) ==
  CASE w = "en" -> << 101, 110 >>
    [] w = "fr" -> << 102, 114 >>
    [] w = "attributes-charset" -> << 97, 116, 116, 114, 105, 98, 117, 116, 101, 115, 45, 99, 104, 97, 114, 115, 101, 116 >>
    [] w = "attributes-natural-language" -> << 97, 116, 116, 114, 105, 98, 117, 116, 101, 115, 45, 110, 97, 116, 117, 114, 97, 108, 45, 108, 97, 110, 103, 117, 97, 103, 101 >>
    [] w = "charset-configured" -> << 99, 104, 97, 114, 115, 101, 116, 45, 99, 111, 110, 102, 105, 103, 117, 114, 101, 100 >>
    [] w = "charset-supported" -> << 99, 104, 97, 114, 115, 101, 116, 45, 115, 117, 112, 112, 111, 114, 116, 101, 100 >>
    [] w = "device-service-count" -> << 100, 101, 118, 105, 99, 101, 45, 115, 101, 114, 118, 105, 99, 101, 45, 99, 111, 117, 110, 116 >>
    [] w = "device-uuid" -> << 100, 101, 118, 105, 99, 101, 45, 117, 117, 105, 100 >>
    [] w = "document-format-varying-attributes" -> << 100, 111, 99, 117, 109, 101, 110, 116, 45, 102, 111, 114, 109, 97, 116, 45, 118, 97, 114, 121, 105, 110, 103, 45, 97, 116, 116, 114, 105, 98, 117, 116, 101, 115 >>
    [] w = "job-settable-attributes-supported" -> << 106, 111, 98, 45, 115, 101, 116, 116, 97, 98, 108, 101, 45, 97, 116, 116, 114, 105, 98, 117, 116, 101, 115, 45, 115, 117, 112, 112, 111, 114, 116, 101, 100 >>
    [] w = "printer-alert" -> << 112, 114, 105, 110, 116, 101, 114, 45, 97, 108, 101, 114, 116 >>
    [] w = "printer-alert-description" -> << 112, 114, 105, 110, 116, 101, 114, 45, 97, 108, 101, 114, 116, 45, 100, 101, 115, 99, 114, 105, 112, 116, 105, 111, 110 >>
    [] w = "printer-camera-image-uri" -> << 112, 114, 105, 110, 116, 101, 114, 45, 99, 97, 109, 101, 114, 97, 45, 105, 109, 97, 103, 101, 45, 117, 114, 105 >>
    [] w = "printer-charge-info" -> << 112, 114, 105, 110, 116, 101, 114, 45, 99, 104, 97, 114, 103, 101, 45, 105, 110, 102, 111 >>
    [] w = "printer-charge-info-uri" -> << 112, 114, 105, 110, 116, 101, 114, 45, 99, 104, 97, 114, 103, 101, 45, 105, 110, 102, 111, 45, 117, 114, 105 >>
    [] w = "printer-config-change-date-time" -> << 112, 114, 105, 110, 116, 101, 114, 45, 99, 111, 110, 102, 105, 103, 45, 99, 104, 97, 110, 103, 101, 45, 100, 97, 116, 101, 45, 116, 105, 109, 101 >>
    [] w = "printer-config-change-time" -> << 112, 114, 105, 110, 116, 101, 114, 45, 99, 111, 110, 102, 105, 103, 45, 99, 104, 97, 110, 103, 101, 45, 116, 105, 109, 101 >>
    [] w = "printer-current-time" -> << 112, 114, 105, 110, 116, 101, 114, 45, 99, 117, 114, 114, 101, 110, 116, 45, 116, 105, 109, 101 >>
    [] w = "printer-detailed-status-messages" -> << 112, 114, 105, 110, 116, 101, 114, 45, 100, 101, 116, 97, 105, 108, 101, 100, 45, 115, 116, 97, 116, 117, 115, 45, 109, 101, 115, 115, 97, 103, 101, 115 >>
    [] w = "printer-dns-sd-name" -> << 112, 114, 105, 110, 116, 101, 114, 45, 100, 110, 115, 45, 115, 100, 45, 110, 97, 109, 101 >>
    [] w = "printer-fax-log-uri" -> << 112, 114, 105, 110, 116, 101, 114, 45, 102, 97, 120, 45, 108, 111, 103, 45, 117, 114, 105 >>
    [] w = "printer-get-attributes-supported" -> << 112, 114, 105, 110, 116, 101, 114, 45, 103, 101, 116, 45, 97, 116, 116, 114, 105, 98, 117, 116, 101, 115, 45, 115, 117, 112, 112, 111, 114, 116, 101, 100 >>
    [] w = "printer-icons" -> << 112, 114, 105, 110, 116, 101, 114, 45, 105, 99, 111, 110, 115 >>
    [] w = "printer-id" -> << 112, 114, 105, 110, 116, 101, 114, 45, 105, 100 >>
    [] w = "printer-is-accepting-jobs" -> << 112, 114, 105, 110, 116, 101, 114, 45, 105, 115, 45, 97, 99, 99, 101, 112, 116, 105, 110, 103, 45, 106, 111, 98, 115 >>
    [] w = "printer-message-date-time" -> << 112, 114, 105, 110, 116, 101, 114, 45, 109, 101, 115, 115, 97, 103, 101, 45, 100, 97, 116, 101, 45, 116, 105, 109, 101 >>
    [] w = "printer-message-from-operator" -> << 112, 114, 105, 110, 116, 101, 114, 45, 109, 101, 115, 115, 97, 103, 101, 45, 102, 114, 111, 109, 45, 111, 112, 101, 114, 97, 116, 111, 114 >>
    [] w = "printer-message-time" -> << 112, 114, 105, 110, 116, 101, 114, 45, 109, 101, 115, 115, 97, 103, 101, 45, 116, 105, 109, 101 >>
    [] w = "printer-more-info" -> << 112, 114, 105, 110, 116, 101, 114, 45, 109, 111, 114, 101, 45, 105, 110, 102, 111 >>
    [] w = "printer-service-type" -> << 112, 114, 105, 110, 116, 101, 114, 45, 115, 101, 114, 118, 105, 99, 101, 45, 116, 121, 112, 101 >>
    [] w = "printer-settable-attributes-supported" -> << 112, 114, 105, 110, 116, 101, 114, 45, 115, 101, 116, 116, 97, 98, 108, 101, 45, 97, 116, 116, 114, 105, 98, 117, 116, 101, 115, 45, 115, 117, 112, 112, 111, 114, 116, 101, 100 >>
    [] w = "printer-state" -> << 112, 114, 105, 110, 116, 101, 114, 45, 115, 116, 97, 116, 101 >>
    [] w = "printer-state-message" -> << 112, 114, 105, 110, 116, 101, 114, 45, 115, 116, 97, 116, 101, 45, 109, 101, 115, 115, 97, 103, 101 >>
    [] w = "printer-state-reasons" -> << 112, 114, 105, 110, 116, 101, 114, 45, 115, 116, 97, 116, 101, 45, 114, 101, 97, 115, 111, 110, 115 >>
    [] w = "printer-static-resource-directory-uri" -> << 112, 114, 105, 110, 116, 101, 114, 45, 115, 116, 97, 116, 105, 99, 45, 114, 101, 115, 111, 117, 114, 99, 101, 45, 100, 105, 114, 101, 99, 116, 111, 114, 121, 45, 117, 114, 105 >>
    [] w = "printer-static-resource-k-octets-free" -> << 112, 114, 105, 110, 116, 101, 114, 45, 115, 116, 97, 116, 105, 99, 45, 114, 101, 115, 111, 117, 114, 99, 101, 45, 107, 45, 111, 99, 116, 101, 116, 115, 45, 102, 114, 101, 101 >>
    [] w = "printer-static-resource-k-octets-supported" -> << 112, 114, 105, 110, 116, 101, 114, 45, 115, 116, 97, 116, 105, 99, 45, 114, 101, 115, 111, 117, 114, 99, 101, 45, 107, 45, 111, 99, 116, 101, 116, 115, 45, 115, 117, 112, 112, 111, 114, 116, 101, 100 >>
    [] w = "printer-strings-languages-supported" -> << 112, 114, 105, 110, 116, 101, 114, 45, 115, 116, 114, 105, 110, 103, 115, 45, 108, 97, 110, 103, 117, 97, 103, 101, 115, 45, 115, 117, 112, 112, 111, 114, 116, 101, 100 >>
    [] w = "printer-strings-uri" -> << 112, 114, 105, 110, 116, 101, 114, 45, 115, 116, 114, 105, 110, 103, 115, 45, 117, 114, 105 >>
    [] w = "printer-supply-info-uri" -> << 112, 114, 105, 110, 116, 101, 114, 45, 115, 117, 112, 112, 108, 121, 45, 105, 110, 102, 111, 45, 117, 114, 105 >>
    [] w = "printer-up-time" -> << 112, 114, 105, 110, 116, 101, 114, 45, 117, 112, 45, 116, 105, 109, 101 >>
    [] w = "printer-uri-supported" -> << 112, 114, 105, 110, 116, 101, 114, 45, 117, 114, 105, 45, 115, 117, 112, 112, 111, 114, 116, 101, 100 >>
    [] w = "printer-xri-supported" -> << 112, 114, 105, 110, 116, 101, 114, 45, 120, 114, 105, 45, 115, 117, 112, 112, 111, 114, 116, 101, 100 >>
    [] w = "queued-job-count" -> << 113, 117, 101, 117, 101, 100, 45, 106, 111, 98, 45, 99, 111, 117, 110, 116 >>
    [] w = "uri-authentication-supported" -> << 117, 114, 105, 45, 97, 117, 116, 104, 101, 110, 116, 105, 99, 97, 116, 105, 111, 110, 45, 115, 117, 112, 112, 111, 114, 116, 101, 100 >>
    [] w = "uri-security-supported" -> << 117, 114, 105, 45, 115, 101, 99, 117, 114, 105, 116, 121, 45, 115, 117, 112, 112, 111, 114, 116, 101, 100 >>
    [] w = "xri-authentication-supported" -> << 120, 114, 105, 45, 97, 117, 116, 104, 101, 110, 116, 105, 99, 97, 116, 105, 111, 110, 45, 115, 117, 112, 112, 111, 114, 116, 101, 100 >>
    [] w = "xri-security-supported" -> << 120, 114, 105, 45, 115, 101, 99, 117, 114, 105, 116, 121, 45, 115, 117, 112, 112, 111, 114, 116, 101, 100 >>
    [] w = "xri-uri-scheme-supported" -> << 120, 114, 105, 45, 117, 114, 105, 45, 115, 99, 104, 101, 109, 101, 45, 115, 117, 112, 112, 111, 114, 116, 101, 100 >>
    [] w = "" -> <<  >>
    [] w = "a" -> << 97 >>
    [] w = "attributes-charse" -> << 97, 116, 116, 114, 105, 98, 117, 116, 101, 115, 45, 99, 104, 97, 114, 115, 101 >>
    [] w = "attributes-charset-x" -> << 97, 116, 116, 114, 105, 98, 117, 116, 101, 115, 45, 99, 104, 97, 114, 115, 101, 116, 45, 120 >>
    [] w = "copies" -> << 99, 111, 112, 105, 101, 115 >>
    [] w = "printer-alert-descriptio" -> << 112, 114, 105, 110, 116, 101, 114, 45, 97, 108, 101, 114, 116, 45, 100, 101, 115, 99, 114, 105, 112, 116, 105, 111 >>
    [] w = "printer-id-x" -> << 112, 114, 105, 110, 116, 101, 114, 45, 105, 100, 45, 120 >>
    [] w = "printer-stat" -> << 112, 114, 105, 110, 116, 101, 114, 45, 115, 116, 97, 116 >>
    [] w = "printer-state-" -> << 112, 114, 105, 110, 116, 101, 114, 45, 115, 116, 97, 116, 101, 45 >>
    [] w = "printer-statistics" -> << 112, 114, 105, 110, 116, 101, 114, 45, 115, 116, 97, 116, 105, 115, 116, 105, 99, 115 >>
    [] w = "xri-uri-scheme-supported-x" -> << 120, 114, 105, 45, 117, 114, 105, 45, 115, 99, 104, 101, 109, 101, 45, 115, 117, 112, 112, 111, 114, 116, 101, 100, 45, 120 >>
    [] w = "zzz" -> << 122, 122, 122 >>
    [] w = "Printer-state" -> << 80, 114, 105, 110, 116, 101, 114, 45, 115, 116, 97, 116, 101 >>
    [] OTHER -> << >>

compare_lang(a, b) == strcmp(chars(a.lang), chars(b.lang))

\* cupsArrayAdd(pinfo->strings, &lang) on the array sorted by compare_lang:
\* the copy goes after every element that does not compare greater
cupsArrayAddLang(a, lang) ==
  LET n == Cardinality({ i \in 1..Len(a) : compare_lang(a[i], lang) <= 0 })
  IN  SubSeq(a, 1, n) \o << lang >> \o SubSeq(a, n + 1, Len(a))

\* the loop of attr_cb from element i on, result being the last comparison
\* made; the loop that stops only at an element greater than attr
RECURSIVE attr_cb_scan_greater(_, _, _)
attr_cb_scan_greater(attr, i, result) ==
  IF i > Len(ignored) THEN result
  ELSE LET r == strcmp(chars(attr), chars(ignored[i]))
       IN  IF r < 0 THEN r ELSE attr_cb_scan_greater(attr, i + 1, r)

\* for (i = 0, result = 1; i < 47; i ++)
\*   if ((result = strcmp(attr, ignored[i])) <= 0) break;
RECURSIVE attr_cb_scan(_, _, _)
attr_cb_scan(attr, i, result) ==
  IF i > Len(ignored) THEN result
  ELSE LET r == strcmp(chars(attr), chars(ignored[i]))
       IN  IF r <= 0 THEN r ELSE attr_cb_scan(attr, i + 1, r)

\* attr_cb(f, pinfo, attr): 1 to use the attribute, 0 to ignore it
attr_cb(attr) == IF attr_cb_scan(attr, 1, 1) # 0 THEN 1 ELSE 0

\* the attribute names attr_cb is asked about: those of the ignore list and
\* names before, between and after them
Candidates ==
  { ignored[i] : i \in 1..Len(ignored) }
  \cup { "", "a", "attributes-charse",
         "attributes-charset-x", "copies", "printer-alert-descriptio",
         "printer-id-x", "printer-stat", "printer-state-",
         "printer-statistics", "xri-uri-scheme-supported-x", "zzz",
         "Printer-state" }

\* _ippVarsExpand(vars, value, temp, sizeof(value)) on a token that holds
\* no variable reference, as all tokens of the model
_ippVarsExpand(temp) == temp

\* the parser's file: the tokens not read yet and the message f->attrs
IppFile(tokens, attrs) == [tokens |-> tokens, attrs |-> attrs]

\* result of the token callback: 1 to continue or 0 to stop, the file and
\* the printer information it leaves
Token(r, f, p) == [ret |-> r, f |-> f, pinfo |-> p]

\* a keyword followed by the name of a group
group_token(f, p, field) ==
  IF f.tokens = << >> THEN Token(0, f, p)
  ELSE LET value == _ippVarsExpand(Head(f.tokens))
           group == getgrnam(<< value >>)
           f1 == IppFile(Tail(f.tokens), f.attrs)
       IN  IF group = NULL THEN Token(0, f1, p)
           ELSE Token(1, f1, [p EXCEPT ![field] = Deref(group)])

\* a keyword followed by one value that is copied into a field
value_token(f, p, field) ==
  IF f.tokens = << >> THEN Token(0, f, p)
  ELSE Token(1, IppFile(Tail(f.tokens), f.attrs),
             [p EXCEPT ![field] = Ptr(_ippVarsExpand(Head(f.tokens)))])

\* the Strings keyword: a language and a file name
strings_token(f, p) ==
  IF f.tokens = << >> THEN Token(0, f, p)
  ELSE IF Tail(f.tokens) = << >> THEN Token(0, IppFile(<< >>, f.attrs), p)
  ELSE LET lang == [lang |-> _ippVarsExpand(f.tokens[1]),
                    filename |-> _ippVarsExpand(f.tokens[2])]
       IN  Token(1, IppFile(Tail(Tail(f.tokens)), f.attrs),
                 [p EXCEPT !.strings = cupsArrayAddLang(@, lang)])

\* token_cb with every unknown keyword accepted
token_cb_lenient(f, p, token) ==
  IF token = NULL THEN Token(1, IppFile(f.tokens, Ptr(<< >>)), p)
  ELSE IF StrCaseEq(Deref(token), "AuthPrintGroup") THEN group_token(f, p, "print_group")
  ELSE IF StrCaseEq(Deref(token), "AuthProxyGroup") THEN group_token(f, p, "proxy_group")
  ELSE IF StrCaseEq(Deref(token), "Command") THEN value_token(f, p, "command")
  ELSE IF StrCaseEq(Deref(token), "DeviceURI") THEN value_token(f, p, "device_uri")
  ELSE IF StrCaseEq(Deref(token), "OutputFormat") THEN value_token(f, p, "output_format")
  ELSE IF StrCaseEq(Deref(token), "Make") THEN value_token(f, p, "make")
  ELSE IF StrCaseEq(Deref(token), "Model") THEN value_token(f, p, "model")
  ELSE IF StrCaseEq(Deref(token), "Strings") THEN strings_token(f, p)
  ELSE Token(1, f, p)

\* token_cb(f, vars, pinfo, token): token is NULL for the initial set-up
token_cb(f, p, token) ==
  IF token = NULL THEN Token(1, IppFile(f.tokens, Ptr(<< >>)), p)
  ELSE IF StrCaseEq(Deref(token), "AuthPrintGroup") THEN group_token(f, p, "print_group")
  ELSE IF StrCaseEq(Deref(token), "AuthProxyGroup") THEN group_token(f, p, "proxy_group")
  ELSE IF StrCaseEq(Deref(token), "Command") THEN value_token(f, p, "command")
  ELSE IF StrCaseEq(Deref(token), "DeviceURI") THEN value_token(f, p, "device_uri")
  ELSE IF StrCaseEq(Deref(token), "OutputFormat") THEN value_token(f, p, "output_format")
  ELSE IF StrCaseEq(Deref(token), "Make") THEN value_token(f, p, "make")
  ELSE IF StrCaseEq(Deref(token), "Model") THEN value_token(f, p, "model")
  ELSE IF StrCaseEq(Deref(token), "Strings") THEN strings_token(f, p)
  ELSE Token(0, f, p)

\* the loop of the parser over the tokens: each is handed to the token
\* callback; a callback that returns 0 aborts the load, which then yields
\* no attributes
RECURSIVE ippFileTokens(_, _)
ippFileTokens(f, p) ==
  IF f.tokens = << >> THEN [attrs |-> f.attrs, pinfo |-> p]
  ELSE LET r == token_cb(IppFile(Tail(f.tokens), f.attrs), p, Ptr(Head(f.tokens)))
       IN  IF r.ret = 0 THEN [attrs |-> NULL, pinfo |-> r.pinfo]
           ELSE ippFileTokens(r.f, r.pinfo)

\* _ippFileParse(&vars, filename, pinfo): NULL if the file cannot be
\* opened, else the set-up call of the token callback and the loop
_ippFileParse(attrfile, p) ==
  IF attrfile = NULL THEN [attrs |-> NULL, pinfo |-> p]
  ELSE LET r == token_cb(IppFile(Deref(attrfile), NULL), p, NULL)
       IN  ippFileTokens(r.f, r.pinfo)

\* serverLoadAttributes that reports success whatever the parser returned
serverLoadAttributes_always(attrfile, p) ==
  LET r == _ippFileParse(attrfile, p)
  IN  [ret |-> 1, pinfo |-> [r.pinfo EXCEPT !.attrs = r.attrs]]

\* pinfo->attrs = _ippFileParse(...); return (pinfo->attrs != NULL)
serverLoadAttributes(attrfile, p) ==
  LET r == _ippFileParse(attrfile, p)
  IN  [ret |-> IF r.attrs # NULL THEN 1 ELSE 0,
       pinfo |-> [r.pinfo EXCEPT !.attrs = r.attrs]]

\* what a definition file is made of: a keyword alone, or followed by the
\* tokens it reads
AttrItems ==
  { << k >> : k \in { "AuthPrintGroup", "AuthProxyGroup", "Command", "DeviceURI",
                      "OutputFormat", "Make", "Model", "Strings", "Bogus" } }
  \cup { << "AuthPrintGroup", "staff" >>, << "AuthPrintGroup", "nobody" >>,
         << "AuthProxyGroup", "nobody" >>, << "Command", "/bin/x" >>,
         << "Strings", "en" >>,
         << "Strings", "en", "a.strings" >>, << "STRINGS", "en", "b.strings" >>,
         << "Strings", "fr", "a.strings" >> }

\* the tokens of the items its, one after the other
RECURSIVE Tokens(_)
Tokens(its) == IF its = << >> THEN << >> ELSE Head(its) \o Tokens(Tail(its))

\* the definition files: one that cannot be opened and those of up to
\* MaxItems items
AttrFiles ==
  { NULL } \cup
  { Ptr(Tokens(its)) : its \in UNION { [1..n -> AttrItems] : n \in 0..MaxItems } }

\* the definition files of the runs that go on to serve: one that cannot
\* be opened, an empty one and one with an unknown keyword
FewFiles == { NULL, Ptr(<< >>), Ptr(<< "Bogus" >>) }

(***************************************************************************)
(* State.                                                                  *)
(***************************************************************************)
VARIABLES
  conf,                     \* the configuration globals
  PrivacyAttributes,        \* the ipp_t of advertised privacy attributes
  DocumentPrivacyArray,     \* the three privacy arrays, NULL until created
  JobPrivacyArray,
  SubscriptionPrivacyArray,
  Printers,                 \* the registry, sorted by compare_printers;
                            \* the empty sequence also stands for NULL
  printer_mutex,            \* the thread holding the mutex, or Unlocked
  pc,                       \* position of the thread in serverLoadConfiguration
  ret,                      \* its return value, -1 until it returns
  file,                     \* the lines of system.conf read so far
  line,                     \* load_system: directive of the current line
  value,                    \* load_system: its value, NULL if it has none
  linenum,                  \* load_system: current line number
  status,                   \* load_system: return value
  sysret,                   \* what load_system returned, -1 before it returns
  msg,                      \* the last diagnostic written to stderr
  nfinalize,                \* calls of serverFinalizeConfiguration so far
  nloads,                   \* calls of serverLoadAttributes so far
  dir,                      \* the directory being scanned
  unread,                   \* its entries cupsDirRead has not returned yet
  dent,                     \* the current directory entry, NULL if none
  created,                  \* resources of the printers serverCreatePrinter made
  listed,                   \* resources of the definition files cupsDirOpen listed
  failed,                   \* resources whose load or creation failed
  pinfo,                    \* the printer information of the file being loaded
  attrfile,                 \* the definition file serverLoadAttributes was given
  attr,                     \* attr_cb: the attribute name asked about, NULL if none
  keep,                     \* attr_cb: its return value, -1 before it returns
  tpc,                      \* position of every serving thread
  resource,                 \* serverFindPrinter: the argument of each finder
  match,                    \* serverFindPrinter: the result of each finder
  cur,                      \* serverCleanAllJobs: index of the current printer
  crashed                   \* the process has faulted

confVars == << conf, PrivacyAttributes, DocumentPrivacyArray, JobPrivacyArray,
               SubscriptionPrivacyArray, nfinalize >>

sysVars == << file, line, value, linenum, status, msg >>

loadVars == << sysVars, sysret >>

dirVars == << nloads, dir, unread, dent, created, listed, failed, pinfo, attrfile, attr, keep >>

serveVars == << tpc, resource, match, cur, crashed >>

vars == << confVars, loadVars, dirVars, serveVars, Printers, printer_mutex, pc, ret >>

(***************************************************************************)
(* Threads.                                                                *)
(***************************************************************************)
Unlocked == 0 - 2

\* the thread that runs serverLoadConfiguration
Main == 0 - 1

\* the thread that runs serverCleanAllJobs
Cleaner == 0

Finders == 1..MaxFinders

Threads == { Cleaner } \cup Finders

(***************************************************************************)
(* Inputs.                                                                 *)
(***************************************************************************)
\* values of the privacy-attributes directives of a category whose aliases
\* are description and template and whose tables hold member
AttributeValues(description, template, member) ==
  { << "all" >>,
    << "default", ",", "default" >>,
    << "all", ",", "none" >>,
    << description, ",", template >>,
    << member, ",", ",", "x-custom", "," >> }

ScopeValues == { << "all" >>, << "owner" >> }

\* a line of system.conf: directive and value
Directive(n, v) == [name |-> n, value |-> v]

PrivacyLines ==
  { Directive("DocumentPrivacyAttributes", Ptr(v)) :
      v \in AttributeValues("document-description", "document-template", "copies") }
  \cup { Directive("JobPrivacyAttributes", Ptr(v)) :
      v \in AttributeValues("job-description", "job-template", "job-name") }
  \cup { Directive("SubscriptionPrivacyAttributes", Ptr(v)) :
      v \in AttributeValues("subscription-description", "subscription-template", "notify-events") }
  \cup { Directive(n, Ptr(v)) :
      n \in { "DocumentPrivacyScope", "JobPrivacyScope", "SubscriptionPrivacyScope" },
      v \in ScopeValues }

OtherLines ==
  { Directive("Authentication", Ptr(<< v >>)) : v \in { "yes", "Off", "True" } }
  \cup { Directive("KeepFiles", Ptr(<< v >>)) : v \in { "yes", "True", "maybe" } }
  \cup { Directive("DefaultPrinter", Ptr(<< "a" >>)), Directive("DefaultPrinter", Ptr(<< "b" >>)),
         Directive("DEFAULTPRINTER", Ptr(<< "a" >>)), Directive("DefaultPrinter", NULL) }
  \cup { Directive("AuthAdminGroup", Ptr(<< v >>)) : v \in { "staff", "nobody" } }
  \cup { Directive("AuthName", Ptr(<< v >>)) : v \in { "a", "b" } }
  \cup { Directive("MaxJobs", Ptr(<< v >>)) : v \in { "10", "20", "many" } }
  \cup { Directive(n, Ptr(<< "/d" >>)) : n \in { "DataDirectory", "SpoolDirectory" } }
  \cup { Directive("Listen", Ptr(v)) :
           v \in { << "h" >>, << "h", ":", "8631" >>, << "h", ":", "ipp" >>, << "h", ":" >> } }
  \cup { Directive("FooBar", Ptr(<< "a" >>)), Directive("FooBar", NULL) }

\* the lines a system.conf is made of
ConfLines == PrivacyLines \cup OtherLines

\* a small system.conf alphabet for the runs that go on to discovery
FewLines ==
  { Directive("Authentication", Ptr(<< "yes" >>)),
    Directive("DefaultPrinter", Ptr(<< "a" >>)),
    Directive("Listen", Ptr(<< "h", ":", "8631" >>)),
    Directive("MaxJobs", Ptr(<< "many" >>)) }

\* names of the files found in the print and print3d directories:
\* "a.conf", "b.conf", "a.png", "README"
FileNames == { << 97, 46, 99, 111, 110, 102 >>, << 98, 46, 99, 111, 110, 102 >>, << 97, 46, 112, 110, 103 >>, << 82, 69, 65, 68, 77, 69 >> }

\* resources asked of serverFindPrinter: "/ipp/print", "/ipp/print/a",
\* "/ipp/print/b", "/ipp/print3d/a", "/ipp/print/c"
Resources == { GenericResource, << 47, 105, 112, 112, 47, 112, 114, 105, 110, 116, 47, 97 >>, << 47, 105, 112, 112, 47, 112, 114, 105, 110, 116, 47, 98 >>, << 47, 105, 112, 112, 47, 112, 114, 105, 110, 116, 51, 100, 47, 97 >>, << 47, 105, 112, 112, 47, 112, 114, 105, 110, 116, 47, 99 >> }


(***************************************************************************)
(* The state after construction: nothing loaded, no thread serving.        *)
(***************************************************************************)
Init ==
  /\ conf = InitConf
  /\ PrivacyAttributes = << >>
  /\ DocumentPrivacyArray = NULL
  /\ JobPrivacyArray = NULL
  /\ SubscriptionPrivacyArray = NULL
  /\ Printers = << >>
  /\ printer_mutex = Unlocked
  /\ pc = "start"
  /\ ret = 0 - 1
  /\ file = << >>
  /\ line = ""
  /\ value = NULL
  /\ linenum = 0
  /\ status = 1
  /\ sysret = 0 - 1
  /\ msg = ""
  /\ nfinalize = 0
  /\ nloads = 0
  /\ dir = ""
  /\ unread = {}
  /\ dent = NULL
  /\ created = {}
  /\ listed = {}
  /\ failed = {}
  /\ pinfo = InitPinfo
  /\ attrfile = NULL
  /\ attr = NULL
  /\ keep = 0 - 1
  /\ tpc = [t \in Threads |-> "idle"]
  /\ resource = [t \in Finders |-> NULL]
  /\ match = [t \in Finders |-> NULL]
  /\ cur = 0
  /\ crashed = FALSE

(***************************************************************************)
(* The state in which serverFinalizeConfiguration is entered after         *)
(* load_system read a system.conf that gives the privacy attributes of one *)
(* category, and possibly its scope and "Authentication yes".              *)
(***************************************************************************)
\* the aliases of the three categories and a member of their tables
Aliases ==
  << [description |-> "document-description", template |-> "document-template",
      member |-> "copies"],
     [description |-> "job-description", template |-> "job-template",
      member |-> "job-name"],
     [description |-> "subscription-description", template |-> "subscription-template",
      member |-> "notify-events"] >>

\* the tokens a privacy-attributes value of category k is made of; "" is
\* the token between two adjacent commas
TokenAlphabet(k) ==
  { "all", "none", "default", Aliases[k].description, Aliases[k].template,
    Aliases[k].member, "x-custom", "" }

\* the value whose comma-separated fields are ts, as it is scanned: an empty
\* field has no symbol of its own
RECURSIVE Join(_)
Join(ts) ==
  LET h == IF Head(ts) = "" THEN << >> ELSE << Head(ts) >>
  IN  IF Len(ts) = 1 THEN h ELSE h \o << "," >> \o Join(Tail(ts))

\* the values given: cupsFileGetConf never returns an empty value
AttributeStrings(k) ==
  { Join(ts) : ts \in UNION { [1..n -> TokenAlphabet(k)] : n \in 1..MaxTokens } } \ { << >> }

\* the configuration load_system leaves after reading the lines ls, none
\* of which fails
RECURSIVE load_system_lines(_, _)
load_system_lines(c, ls) ==
  IF ls = << >> THEN c
  ELSE load_system_lines(load_system_line(c, Head(ls).name, Head(ls).value, TRUE, TRUE).conf, Tail(ls))

\* the three categories by their directives
Categories ==
  { [k |-> 1, attrs |-> "DocumentPrivacyAttributes", scope |-> "DocumentPrivacyScope"],
    [k |-> 2, attrs |-> "JobPrivacyAttributes", scope |-> "JobPrivacyScope"],
    [k |-> 3, attrs |-> "SubscriptionPrivacyAttributes", scope |-> "SubscriptionPrivacyScope"] }

\* the system.conf files read before the resolvers are run
ResolverFiles ==
  UNION { { auth \o << Directive(d.attrs, Ptr(s)) >> \o scope :
              auth \in { << >>, << Directive("Authentication", Ptr(<< "yes" >>)) >> },
              s \in AttributeStrings(d.k),
              scope \in { << >>, << Directive(d.scope, Ptr(<< "owner" >>)) >> } } :
          d \in Categories }

InitResolve ==
  /\ file \in ResolverFiles
  /\ conf = load_system_lines(InitConf, file)
  /\ PrivacyAttributes = << >>
  /\ DocumentPrivacyArray = NULL
  /\ JobPrivacyArray = NULL
  /\ SubscriptionPrivacyArray = NULL
  /\ Printers = << >>
  /\ printer_mutex = Unlocked
  /\ pc = "finalize"
  /\ ret = 0 - 1
  /\ line = file[Len(file)].name
  /\ value = file[Len(file)].value
  /\ linenum = Len(file)
  /\ status = 1
  /\ sysret = 1
  /\ msg = ""
  /\ nfinalize = 0
  /\ nloads = 0
  /\ dir = ""
  /\ unread = {}
  /\ dent = NULL
  /\ created = {}
  /\ listed = {}
  /\ failed = {}
  /\ pinfo = InitPinfo
  /\ attrfile = NULL
  /\ attr = NULL
  /\ keep = 0 - 1
  /\ tpc = [t \in Threads |-> "idle"]
  /\ resource = [t \in Finders |-> NULL]
  /\ match = [t \in Finders |-> NULL]
  /\ cur = 0
  /\ crashed = FALSE

(***************************************************************************)
(* serverLoadConfiguration: load_system.                                   *)
(***************************************************************************)
\* cupsFileOpen(conf, "r"): "open", "ENOENT" or another error
LoadSystemOpen(outcome) ==
  /\ pc = "start"
  /\ pc' = CASE outcome = "open" -> "load_system"
             [] outcome = "ENOENT" -> "finalize"
             [] OTHER -> "return"
  /\ ret' = IF outcome \in { "open", "ENOENT" } THEN ret ELSE 0
  /\ sysret' = CASE outcome = "open" -> sysret
                 [] outcome = "ENOENT" -> 1
                 [] OTHER -> 0
  /\ UNCHANGED << confVars, sysVars, dirVars, serveVars, Printers, printer_mutex >>

\* cupsFileGetConf returns the next line, taken from the set lines
LoadSystemLine(lines) ==
  /\ pc = "load_system"
  /\ status = 1
  /\ linenum < MaxLines
  /\ \E l \in lines, accessOk \in BOOLEAN, listenOk \in BOOLEAN :
       LET r == load_system_line(conf, l.name, l.value, accessOk, listenOk)
       IN  /\ conf' = r.conf
           /\ status' = r.status
           /\ msg' = r.msg
           /\ line' = l.name
           /\ value' = l.value
           /\ file' = Append(file, l)
  /\ linenum' = linenum + 1
  /\ UNCHANGED << PrivacyAttributes, DocumentPrivacyArray, JobPrivacyArray,
                  SubscriptionPrivacyArray, nfinalize, sysret, dirVars, serveVars,
                  Printers, printer_mutex, pc, ret >>

\* serverLoadConfiguration going on whatever load_system returned
LoadSystemReturn_ignored ==
  /\ pc = "load_system"
  /\ pc' = "finalize"
  /\ ret' = ret
  /\ sysret' = status
  /\ UNCHANGED << confVars, sysVars, dirVars, serveVars, Printers, printer_mutex >>

\* the loop ends, by break or at the end of the file: cupsFileClose(fp);
\* return (status); serverLoadConfiguration returns 0 if that is 0
LoadSystemReturn ==
  /\ pc = "load_system"
  /\ pc' = IF status = 0 THEN "return" ELSE "finalize"
  /\ ret' = IF status = 0 THEN 0 ELSE ret
  /\ sysret' = status
  /\ UNCHANGED << confVars, sysVars, dirVars, serveVars, Printers, printer_mutex >>

(***************************************************************************)
(* serverLoadConfiguration: serverFinalizeConfiguration.                   *)
(***************************************************************************)
Finalize ==
  /\ pc = "finalize"
  /\ \E mkdirOk \in BOOLEAN, listenOk \in BOOLEAN :
       LET r == serverFinalizeConfiguration(conf, mkdirOk, listenOk)
       IN  /\ conf' = r.conf
           /\ PrivacyAttributes' = IF r.resolved THEN r.ipp ELSE PrivacyAttributes
           /\ DocumentPrivacyArray' = IF r.resolved THEN r.document ELSE DocumentPrivacyArray
           /\ JobPrivacyArray' = IF r.resolved THEN r.job ELSE JobPrivacyArray
           /\ SubscriptionPrivacyArray' = IF r.resolved THEN r.subscription ELSE SubscriptionPrivacyArray
           /\ pc' = IF r.ret = 0 THEN "return" ELSE "print"
           /\ ret' = IF r.ret = 0 THEN 0 ELSE ret
  /\ nfinalize' = nfinalize + 1
  /\ UNCHANGED << loadVars, dirVars, serveVars, Printers, printer_mutex >>

(***************************************************************************)
(* serverLoadConfiguration: the print and print3d directories.             *)
(***************************************************************************)
\* cupsDirOpen of directory d fails, or succeeds on a directory holding
\* the files of entries; when serverLoadConfiguration returns, its local
\* pinfo is gone, which the cleared value stands for, and no definition
\* file is being loaded
OpenDir(d, entries) ==
  /\ pc = d
  /\ \/ /\ pc' = IF d = "print" THEN "print3d" ELSE "return"
        /\ ret' = IF d = "print" THEN ret ELSE 1
        /\ pinfo' = IF d = "print" THEN pinfo ELSE InitPinfo
        /\ attrfile' = IF d = "print" THEN attrfile ELSE NULL
        /\ UNCHANGED << dir, unread, listed >>
     \/ /\ pc' = "read"
        /\ dir' = d
        /\ unread' = entries
        /\ listed' = listed \cup { make_resource(d, base_name(f)) : f \in { g \in entries : is_conf(g) } }
        /\ ret' = ret
        /\ UNCHANGED << pinfo, attrfile >>
  /\ UNCHANGED << confVars, loadVars, attr, keep, nloads, dent, created, failed, serveVars, Printers, printer_mutex >>

\* cupsDirRead returns NULL: cupsDirClose(dir) and on to the next directory,
\* or return (1) after the second
CloseDir ==
  /\ pc = "read"
  /\ unread = {}
  /\ pc' = IF dir = "print" THEN "print3d" ELSE "return"
  /\ ret' = IF dir = "print" THEN ret ELSE 1
  /\ dir' = ""
  /\ dent' = NULL
  /\ pinfo' = IF dir = "print" THEN pinfo ELSE InitPinfo
  /\ attrfile' = IF dir = "print" THEN attrfile ELSE NULL
  /\ UNCHANGED << confVars, loadVars, attr, keep, nloads, unread, created, listed, failed, serveVars, Printers, printer_mutex >>

\* cupsDirRead returns an entry; a .conf file has its name cut before
\* ".conf", pinfo is cleared for it and it is about to be loaded, any other
\* file is skipped
ReadDir ==
  /\ pc = "read"
  /\ \E f \in unread :
       /\ unread' = unread \ { f }
       /\ dent' = IF is_conf(f) THEN Ptr(base_name(f)) ELSE Ptr(f)
       /\ pinfo' = IF is_conf(f) THEN InitPinfo ELSE pinfo
       /\ attrfile' = IF is_conf(f) THEN NULL ELSE attrfile
       /\ pc' = IF is_conf(f) THEN "load" ELSE "read"
  /\ UNCHANGED << confVars, loadVars, attr, keep, nloads, dir, created, listed, failed,
                  serveVars, Printers, printer_mutex, ret >>

\* the loop left with failure when serverLoadAttributes returns 0
LoadAttributes_abort(files) ==
  /\ pc = "load"
  /\ nloads' = nloads + 1
  /\ \E f \in files :
       LET r == serverLoadAttributes(f, pinfo)
       IN  /\ attrfile' = f
           /\ pinfo' = r.pinfo
           /\ pc' = IF r.ret # 0 THEN "create" ELSE "return"
           /\ ret' = IF r.ret # 0 THEN ret ELSE 0
           /\ failed' = IF r.ret # 0 THEN failed
                         ELSE failed \cup { make_resource(dir, Deref(dent)) }
  /\ UNCHANGED << confVars, loadVars, attr, keep, dir, unread, dent, created, listed, serveVars, Printers, printer_mutex >>

\* serverLoadAttributes(filename, &pinfo) runs on a definition file that is
\* one of files; when it returns 0 the loop goes on with the next entry
LoadAttributes(files) ==
  /\ pc = "load"
  /\ nloads' = nloads + 1
  /\ \E f \in files :
       LET r == serverLoadAttributes(f, pinfo)
       IN  /\ attrfile' = f
           /\ pinfo' = r.pinfo
           /\ pc' = IF r.ret # 0 THEN "create" ELSE "read"
           /\ failed' = IF r.ret # 0 THEN failed
                         ELSE failed \cup { make_resource(dir, Deref(dent)) }
  /\ UNCHANGED << confVars, loadVars, attr, keep, dir, unread, dent, created, listed, serveVars, Printers, printer_mutex, ret >>

\* serverCreatePrinter(resource, dent->filename, &pinfo) runs and returns
\* a printer (ok) or NULL
CreatePrinter(ok) ==
  /\ pc = "create"
  /\ pc' = IF ok THEN "add" ELSE "read"
  /\ created' = IF ok THEN created \cup { make_resource(dir, Deref(dent)) } ELSE created
  /\ failed' = IF ok THEN failed ELSE failed \cup { make_resource(dir, Deref(dent)) }
  /\ UNCHANGED << confVars, loadVars, attr, keep, nloads, dir, unread, dent, listed, pinfo, attrfile, serveVars, Printers, printer_mutex, ret >>

\* if (!Printers) Printers = cupsArrayNew(compare_printers, NULL);
\* cupsArrayAdd(Printers, printer)
AddPrinter ==
  /\ pc = "add"
  /\ Printers' = cupsArrayAddPrinter(Printers,
                   [resource |-> make_resource(dir, Deref(dent)), name |-> Deref(dent)])
  /\ pc' = "read"
  /\ UNCHANGED << confVars, loadVars, dirVars, serveVars, printer_mutex, ret >>


(***************************************************************************)
(* The serving threads, started once serverLoadConfiguration returned 1.   *)
(***************************************************************************)
Serving == pc = "return" /\ ret = 1 /\ ~crashed

mainVars == << confVars, loadVars, dirVars, Printers, pc, ret >>

\* a thread calls serverFindPrinter(r)
FindCall(t, r) ==
  /\ Serving
  /\ tpc[t] = "idle"
  /\ tpc' = [tpc EXCEPT ![t] = "lock"]
  /\ resource' = [resource EXCEPT ![t] = Ptr(r)]
  /\ match' = [match EXCEPT ![t] = NULL]
  /\ UNCHANGED << mainVars, printer_mutex, cur, crashed >>

\* _cupsMutexLock(&printer_mutex)
FindLock(t) ==
  /\ Serving
  /\ tpc[t] = "lock"
  /\ printer_mutex = Unlocked
  /\ printer_mutex' = t
  /\ tpc' = [tpc EXCEPT ![t] = "search"]
  /\ UNCHANGED << mainVars, resource, match, cur, crashed >>

\* the if statement between lock and unlock
FindSearch(t) ==
  /\ Serving
  /\ tpc[t] = "search"
  /\ \E o \in find_printer(Printers, Deref(resource[t])) :
       /\ crashed' = o.crash
       /\ match' = [match EXCEPT ![t] = o.match]
       /\ tpc' = [tpc EXCEPT ![t] = IF o.crash THEN "fault" ELSE "unlock"]
  /\ UNCHANGED << mainVars, printer_mutex, resource, cur >>

\* _cupsMutexUnlock(&printer_mutex); return (match)
FindUnlock(t) ==
  /\ Serving
  /\ tpc[t] = "unlock"
  /\ printer_mutex' = Unlocked
  /\ tpc' = [tpc EXCEPT ![t] = "idle"]
  /\ UNCHANGED << mainVars, resource, match, cur, crashed >>

\* a thread calls serverCleanAllJobs()
CleanCall ==
  /\ Serving
  /\ tpc[Cleaner] = "idle"
  /\ tpc' = [tpc EXCEPT ![Cleaner] = "lock"]
  /\ UNCHANGED << mainVars, printer_mutex, resource, match, cur, crashed >>

\* _cupsMutexLock(&printer_mutex); printer = cupsArrayFirst(Printers)
CleanLock ==
  /\ Serving
  /\ tpc[Cleaner] = "lock"
  /\ printer_mutex = Unlocked
  /\ printer_mutex' = Cleaner
  /\ cur' = 1
  /\ tpc' = [tpc EXCEPT ![Cleaner] = "loop"]
  /\ UNCHANGED << mainVars, resource, match, crashed >>

\* the loop test succeeds: serverCleanJobs(printer) is called
CleanJobs ==
  /\ Serving
  /\ tpc[Cleaner] = "loop"
  /\ cur <= Len(Printers)
  /\ tpc' = [tpc EXCEPT ![Cleaner] = "serverCleanJobs"]
  /\ UNCHANGED << mainVars, printer_mutex, resource, match, cur, crashed >>

\* serverCleanJobs returns; printer = cupsArrayNext(Printers)
CleanNext ==
  /\ Serving
  /\ tpc[Cleaner] = "serverCleanJobs"
  /\ cur' = cur + 1
  /\ tpc' = [tpc EXCEPT ![Cleaner] = "loop"]
  /\ UNCHANGED << mainVars, printer_mutex, resource, match, crashed >>

\* the loop test fails: _cupsMutexUnlock(&printer_mutex) and return
CleanUnlock ==
  /\ Serving
  /\ tpc[Cleaner] = "loop"
  /\ cur > Len(Printers)
  /\ printer_mutex' = Unlocked
  /\ cur' = 0
  /\ tpc' = [tpc EXCEPT ![Cleaner] = "idle"]
  /\ UNCHANGED << mainVars, resource, match, crashed >>

(***************************************************************************)
(* Specifications.                                                         *)
(***************************************************************************)
Directories == { S \in SUBSET FileNames : Cardinality(S) <= MaxEntries }

Discover ==
  \/ \E d \in { "print", "print3d" }, S \in Directories : OpenDir(d, S)
  \/ ReadDir
  \/ LoadAttributes(FewFiles)
  \/ \E ok \in BOOLEAN : CreatePrinter(ok)
  \/ AddPrinter
  \/ CloseDir

Serve ==
  \/ \E t \in Finders, r \in Resources : FindCall(t, r)
  \/ \E t \in Finders : FindLock(t)
  \/ \E t \in Finders : FindSearch(t)
  \/ \E t \in Finders : FindUnlock(t)
  \/ CleanCall
  \/ CleanLock
  \/ CleanJobs
  \/ CleanNext
  \/ CleanUnlock

\* load_system over every line of ConfLines, then finalization
NextConf ==
  \/ \E o \in { "open", "ENOENT", "EACCES" } : LoadSystemOpen(o)
  \/ LoadSystemLine(ConfLines)
  \/ LoadSystemReturn
  \/ Finalize

SpecConf == Init /\ [][NextConf]_vars

\* the whole of serverLoadConfiguration over a small system.conf
NextLoad ==
  \/ \E o \in { "open", "ENOENT", "EACCES" } : LoadSystemOpen(o)
  \/ LoadSystemLine(FewLines)
  \/ LoadSystemReturn
  \/ Finalize
  \/ Discover

SpecLoad == Init /\ [][NextLoad]_vars

\* the privacy resolvers over every attributes value of AttributeStrings
NextResolve == Finalize

SpecResolve == InitResolve /\ [][NextResolve]_vars

\* attr_cb is called about an attribute name of Candidates
InitFilter ==
  /\ attr \in { Ptr(a) : a \in Candidates }
  /\ keep = 0 - 1
  /\ conf = InitConf
  /\ PrivacyAttributes = << >>
  /\ DocumentPrivacyArray = NULL
  /\ JobPrivacyArray = NULL
  /\ SubscriptionPrivacyArray = NULL
  /\ Printers = << >>
  /\ printer_mutex = Unlocked
  /\ pc = "start"
  /\ ret = 0 - 1
  /\ file = << >>
  /\ line = ""
  /\ value = NULL
  /\ linenum = 0
  /\ status = 1
  /\ sysret = 0 - 1
  /\ msg = ""
  /\ nfinalize = 0
  /\ nloads = 0
  /\ dir = ""
  /\ unread = {}
  /\ dent = NULL
  /\ created = {}
  /\ listed = {}
  /\ failed = {}
  /\ pinfo = InitPinfo
  /\ attrfile = NULL
  /\ tpc = [t \in Threads |-> "idle"]
  /\ resource = [t \in Finders |-> NULL]
  /\ match = [t \in Finders |-> NULL]
  /\ cur = 0
  /\ crashed = FALSE

\* attr_cb runs and returns
AttrCb ==
  /\ attr # NULL
  /\ keep = 0 - 1
  /\ keep' = attr_cb(Deref(attr))
  /\ UNCHANGED << confVars, loadVars, nloads, dir, unread, dent, created, listed,
                  failed, pinfo, attrfile, attr, serveVars, Printers, printer_mutex, pc, ret >>

\* attr_cb over every name of Candidates
NextFilter == AttrCb

SpecFilter == InitFilter /\ [][NextFilter]_vars

\* directories of at most one file
SmallDirectories == { S \in SUBSET FileNames : Cardinality(S) <= 1 }

\* start-up without a system.conf, then discovery over every definition
\* file of AttrFiles
NextAttrs ==
  \/ LoadSystemOpen("ENOENT")
  \/ Finalize
  \/ \E d \in { "print", "print3d" }, S \in SmallDirectories : OpenDir(d, S)
  \/ ReadDir
  \/ LoadAttributes(AttrFiles)
  \/ \E ok \in BOOLEAN : CreatePrinter(ok)
  \/ AddPrinter
  \/ CloseDir

SpecAttrs == Init /\ [][NextAttrs]_vars

\* the system.conf files read before the queues are looked up: empty, or
\* naming a default printer
FindFiles ==
  { << >>, << Directive("DefaultPrinter", Ptr(<< "a" >>)) >>,
    << Directive("DefaultPrinter", Ptr(<< "b" >>)) >> }

\* load_system has returned 1 on a file of FindFiles
InitFind ==
  /\ file \in FindFiles
  /\ conf = load_system_lines(InitConf, file)
  /\ PrivacyAttributes = << >>
  /\ DocumentPrivacyArray = NULL
  /\ JobPrivacyArray = NULL
  /\ SubscriptionPrivacyArray = NULL
  /\ Printers = << >>
  /\ printer_mutex = Unlocked
  /\ pc = "finalize"
  /\ ret = 0 - 1
  /\ line = IF file = << >> THEN "" ELSE file[Len(file)].name
  /\ value = IF file = << >> THEN NULL ELSE file[Len(file)].value
  /\ linenum = Len(file)
  /\ status = 1
  /\ sysret = 1
  /\ msg = ""
  /\ nfinalize = 0
  /\ nloads = 0
  /\ dir = ""
  /\ unread = {}
  /\ dent = NULL
  /\ created = {}
  /\ listed = {}
  /\ failed = {}
  /\ pinfo = InitPinfo
  /\ attrfile = NULL
  /\ attr = NULL
  /\ keep = 0 - 1
  /\ tpc = [t \in Threads |-> "idle"]
  /\ resource = [t \in Finders |-> NULL]
  /\ match = [t \in Finders |-> NULL]
  /\ cur = 0
  /\ crashed = FALSE

\* discovery after a system.conf of FindFiles, then threads that look up
\* "/ipp/print"
NextFind ==
  \/ Finalize
  \/ Discover
  \/ \E t \in Finders : FindCall(t, GenericResource)
  \/ \E t \in Finders : FindLock(t)
  \/ \E t \in Finders : FindSearch(t)
  \/ \E t \in Finders : FindUnlock(t)

SpecFind == InitFind /\ [][NextFind]_vars

\* start-up without a system.conf, then the serving threads
Next ==
  \/ LoadSystemOpen("ENOENT")
  \/ Finalize
  \/ Discover
  \/ Serve

Spec == Init /\ [][Next]_vars

\* Spec under fair scheduling: a thread that can take a step eventually
\* takes it, and a thread waiting for the mutex gets it if it is free again
\* and again; no thread is obliged to call an operation
SpecFair ==
  /\ Spec
  /\ \A t \in Finders :
       SF_vars(FindLock(t)) /\ WF_vars(FindSearch(t)) /\ WF_vars(FindUnlock(t))
  /\ SF_vars(CleanLock) /\ WF_vars(CleanJobs) /\ WF_vars(CleanNext) /\ WF_vars(CleanUnlock)


(***************************************************************************)
(* Properties.                                                             *)
(***************************************************************************)
\* the set-once directive the name of a line stands for, "" if none
SetOnceOf(name) ==
  IF \E D \in SetOnce : StrCaseEq(name, D)
    THEN CHOOSE D \in SetOnce : StrCaseEq(name, D)
    ELSE ""

\* indices of the lines read so far that give directive D
Occurrences(D) == { i \in 1..Len(file) : StrCaseEq(file[i].name, D) }

\* the step of load_system that reads one more line
ReadsLine == pc = "load_system" /\ linenum' = linenum + 1

\* C1: a set-once directive (DefaultPrinter and the six privacy directives)
\* given a second time stops load_system at that line with failure and leaves
\* the field at the value of the first occurrence; the "Extra" failure occurs
\* only on such a second occurrence; after a failure no further line is read
\* and serverLoadConfiguration returns 0
C1_SetOnceDirectives ==
  [][ /\ (ReadsLine /\ SetOnceOf(line') # "") =>
           LET D == SetOnceOf(line')
           IN  IF Occurrences(D) # {}
                 THEN /\ status' = 0
                      /\ conf'[D] = conf[D]
                      /\ conf'[D] = file[CHOOSE i \in Occurrences(D) : \A j \in Occurrences(D) : i <= j].value
                      /\ value' # NULL => msg' = "Extra"
                 ELSE /\ msg' # "Extra"
                      /\ value' # NULL => status' = 1 /\ conf'[D] = value'
      /\ (ReadsLine /\ msg' = "Extra") => Occurrences(SetOnceOf(line')) # {}
      /\ status = 0 => file' = file /\ conf' = conf /\ pc' = "return" /\ ret' = 0
    ]_vars

\* C1 witness: the second of two DefaultPrinter lines with different values
\* has been refused and serverLoadConfiguration has returned 0
C1_Witness ==
  /\ pc = "return" /\ ret = 0 /\ status = 0 /\ msg = "Extra"
  /\ Len(file) = 2
  /\ SetOnceOf(file[1].name) = "DefaultPrinter"
  /\ SetOnceOf(file[2].name) = "DefaultPrinter"
  /\ file[1].value # file[2].value
  /\ conf.DefaultPrinter = file[1].value

\* no string occurs more than once in a privacy array
Deduplicated(array) ==
  array # NULL => \A e \in BagToSet(Deref(array)) : CopiesIn(e, Deref(array)) = 1

\* C2: after resolution no attribute name occurs more than once in the
\* privacy array of any category
C2_Deduplicated ==
  /\ Deduplicated(DocumentPrivacyArray)
  /\ Deduplicated(JobPrivacyArray)
  /\ Deduplicated(SubscriptionPrivacyArray)


\* C3: the registry is inserted into, iterated and searched only by a
\* thread that holds printer_mutex
C3_RegistryUnderMutex ==
  /\ pc = "add" => printer_mutex = Main
  /\ \A t \in Finders : tpc[t] = "search" => printer_mutex = t
  /\ tpc[Cleaner] \in { "loop", "serverCleanJobs" } => printer_mutex = Cleaner

\* C4: no thread holds printer_mutex while serverCleanJobs, the attribute
\* file parser or serverCreatePrinter runs on it
C4_NoLockAcrossCollaborator ==
  /\ tpc[Cleaner] = "serverCleanJobs" => printer_mutex # Cleaner
  /\ pc \in { "load", "create" } => printer_mutex # Main

\* C5: under fair scheduling every call of serverFindPrinter or
\* serverCleanAllJobs that requests printer_mutex gets it, releases it and
\* returns
C5_NoIndefiniteSuspension ==
  \A t \in Threads : (tpc[t] = "lock") ~> (tpc[t] = "idle" /\ printer_mutex # t)

\* a finder holds the result of a search
HasResult(t) == tpc[t] = "unlock" \/ (tpc[t] = "idle" /\ resource[t] # NULL)

Registered(r) == { i \in 1..Len(Printers) : Printers[i].resource = r }

\* C7: with two or more queues and a resource other than "/ipp/print",
\* serverFindPrinter returns the queue with exactly that resource if one is
\* registered and NULL otherwise; with one queue, "/ipp/print" returns it
C7_ExactMatch ==
  \A t \in Finders : HasResult(t) =>
    /\ (Len(Printers) >= 2 /\ Deref(resource[t]) # GenericResource) =>
         /\ Registered(Deref(resource[t])) = {} => match[t] = NULL
         /\ Registered(Deref(resource[t])) # {} =>
              match[t] # NULL /\ Deref(match[t]).resource = Deref(resource[t])
         /\ match[t] # NULL => \E i \in 1..Len(Printers) : Printers[i] = Deref(match[t])
    /\ (Len(Printers) = 1 /\ Deref(resource[t]) = GenericResource) =>
         match[t] = Ptr(Printers[1])

\* C7 witness: among several queues the finder returned one that is not the
\* first, for its resource
C7_Witness ==
  \E t \in Finders :
    /\ tpc[t] = "idle" /\ resource[t] # NULL
    /\ Len(Printers) >= 2
    /\ match[t] = Ptr(Printers[2])
    /\ Deref(resource[t]) = Printers[2].resource

\* the resources in the registry
RegisteredResources == { Printers[i].resource : i \in 1..Len(Printers) }

\* C8: the registry never holds two entries with one resource and is in
\* ascending order of resource; it holds exactly the queues created so far,
\* so its contents and order do not depend on the order of the directory
\* entries; no queue is inserted whose resource is already registered
C8_RegistryUniqueSorted ==
  /\ \A i, j \in 1..Len(Printers) :
       i < j => strcmp(Printers[i].resource, Printers[j].resource) < 0
  /\ pc # "add" => RegisteredResources = created
  /\ pc = "add" =>
       /\ make_resource(dir, Deref(dent)) \notin RegisteredResources
       /\ RegisteredResources \cup { make_resource(dir, Deref(dent)) } = created

\* C8 witness: discovery ended with a 2-D and a 3-D queue of one base name
C8_Witness ==
  /\ pc = "return" /\ ret = 1
  /\ \E i, j \in 1..Len(Printers) :
       /\ i < j
       /\ Printers[i].name = Printers[j].name
       /\ Printers[i].resource = Prefix2D \o Printers[i].name
       /\ Printers[j].resource = Prefix3D \o Printers[j].name

\* serverLoadConfiguration is in or past the loops over the directories
Discovering ==
  \/ pc \in { "print", "print3d", "read", "load", "create", "add" }
  \/ nloads > 0
  \/ created # {}
  \/ Printers # << >>

\* C9: serverFinalizeConfiguration runs at most once, only after
\* load_system read its last line and returned 1, and before any
\* attribute file is loaded or queue inserted, which happens only after it
\* succeeded (privacy resolved, a listener present); when load_system or
\* finalization fails no queue is loaded
C9_FinalizeOrder ==
  /\ [](/\ nfinalize <= 1
        /\ nfinalize = 1 => sysret = 1 /\ pc \notin { "start", "load_system", "finalize" }
        /\ Discovering => /\ nfinalize = 1
                          /\ PrivacyAttributes # << >>
                          /\ conf.Listeners # << >>
        /\ (pc = "return" /\ ret = 1) => nfinalize = 1
        /\ (pc = "return" /\ ret = 0) => ~Discovering
        /\ sysret # 1 => nfinalize = 0 /\ ~Discovering)
  /\ [][file' # file => nfinalize' = 0]_vars

\* C9 witness: a queue was inserted after a system.conf was read
C9_Witness == Printers # << >> /\ Len(file) > 0 /\ nfinalize = 1

PrivacyFields ==
  << [scope |-> "DocumentPrivacyScope", attrs |-> "DocumentPrivacyAttributes",
      advertised |-> "document-privacy-attributes"],
     [scope |-> "JobPrivacyScope", attrs |-> "JobPrivacyAttributes",
      advertised |-> "job-privacy-attributes"],
     [scope |-> "SubscriptionPrivacyScope", attrs |-> "SubscriptionPrivacyAttributes",
      advertised |-> "subscription-privacy-attributes"] >>

\* the value the first line giving directive D has, NULL if no line gives it
GivenValue(D) ==
  IF Occurrences(D) = {} THEN NULL
  ELSE file[CHOOSE i \in Occurrences(D) : \A j \in Occurrences(D) : i <= j].value

\* the values of the attribute called name in PrivacyAttributes
Advertised(name) ==
  LET S == { i \in 1..Len(PrivacyAttributes) : PrivacyAttributes[i].name = name }
  IN  IF S = {} THEN << >> ELSE PrivacyAttributes[CHOOSE i \in S : TRUE].values

\* the privacy arrays, by category
PrivacyArrays == << DocumentPrivacyArray, JobPrivacyArray, SubscriptionPrivacyArray >>

\* C10: once finalization has resolved the privacy policy, a scope or
\* attributes field whose directive was not given holds the default of the
\* Authentication setting (default scope and "default" when enabled, "all"
\* and "none" when disabled) and a field whose directive was given holds the
\* given value; with Authentication enabled and no privacy directive every
\* privacy array is non-empty and every advertised value is "default"
C10_PrivacyDefaults ==
  (nfinalize = 1 /\ PrivacyAttributes # << >>) =>
    \A k \in 1..3 :
      LET f == PrivacyFields[k] IN
      /\ conf[f.scope] =
           IF GivenValue(f.scope) # NULL THEN GivenValue(f.scope)
           ELSE IF conf.Authentication # 0 THEN Ptr(<< SERVER_SCOPE_DEFAULT >>)
           ELSE Ptr(<< SERVER_SCOPE_ALL >>)
      /\ conf[f.attrs] =
           IF GivenValue(f.attrs) # NULL THEN GivenValue(f.attrs)
           ELSE IF conf.Authentication # 0 THEN Ptr(<< "default" >>)
           ELSE Ptr(<< "none" >>)
      /\ (conf.Authentication # 0
            /\ \A m \in 1..3 : GivenValue(PrivacyFields[m].scope) = NULL
                               /\ GivenValue(PrivacyFields[m].attrs) = NULL) =>
           /\ PrivacyArrays[k] # NULL
           /\ BagToSet(Deref(PrivacyArrays[k])) # {}
           /\ Advertised(f.advertised) = << "default" >>

\* C10 witness: finalization ran after "Authentication yes" and one
\* privacy directive, the other five fields got the defaults
C10_Witness ==
  /\ nfinalize = 1 /\ PrivacyAttributes # << >>
  /\ conf.Authentication = 1
  /\ GivenValue("JobPrivacyScope") = Ptr(<< "all" >>)
  /\ conf.JobPrivacyScope = Ptr(<< "all" >>)
  /\ conf.DocumentPrivacyScope = Ptr(<< SERVER_SCOPE_DEFAULT >>)
  /\ Advertised("document-privacy-attributes") = << "default" >>

\* serverFinalizeConfiguration has run the three resolvers
Resolved == nfinalize = 1 /\ PrivacyAttributes # << >>

\* the elements of a table
Elements(table) == { table[i] : i \in 1..Len(table) }

\* the description and the template table of category k
DescriptionSet(k) ==
  CASE k = 1 -> Elements(document_description)
    [] k = 2 -> Elements(job_description)
    [] k = 3 -> Elements(subscription_description)

TemplateSet(k) ==
  CASE k = 1 -> Elements(document_template)
    [] k = 2 -> Elements(job_template)
    [] k = 3 -> Elements(subscription_template)

\* the attribute set of category k: the strings its privacy array holds,
\* none if the array was not created
AttributeSet(k) ==
  IF PrivacyArrays[k] = NULL THEN {} ELSE BagToSet(Deref(PrivacyArrays[k]))

\* the attributes value category k was resolved from
AttributesValue(k) == Deref(conf[PrivacyFields[k].attrs])

\* C11: for every category, the attributes value "none" resolves to no
\* attribute at all and the advertised value "none"; the value "all" resolves
\* to exactly the names of the category's description and template tables
\* and the advertised value "all"
C11_WholeValueShortcuts ==
  Resolved =>
    \A k \in 1..3 :
      /\ AttributesValue(k) = << "none" >> =>
           /\ AttributeSet(k) = {}
           /\ Advertised(PrivacyFields[k].advertised) = << "none" >>
      /\ AttributesValue(k) = << "all" >> =>
           /\ AttributeSet(k) = DescriptionSet(k) \cup TemplateSet(k)
           /\ Advertised(PrivacyFields[k].advertised) = << "all" >>

\* C11 witness: the job category was resolved from a given "all" and the
\* document category from the default "none"
C11_Witness ==
  /\ Resolved
  /\ GivenValue("JobPrivacyAttributes") = Ptr(<< "all" >>)
  /\ AttributeSet(2) = DescriptionSet(2) \cup TemplateSet(2)
  /\ Advertised("job-privacy-attributes") = << "all" >>
  /\ AttributesValue(1) = << "none" >>
  /\ DocumentPrivacyArray = NULL
  /\ Advertised("document-privacy-attributes") = << "none" >>

\* the comma-separated fields of a value, left to right: a comma ends a
\* field, and what follows the last comma is a field unless it is empty
Fields(v) ==
  LET commas == { i \in 1..Len(v) : v[i] = "," }
      before(i) == Cardinality({ c \in commas : c < i })
      n == Cardinality(commas) + (IF v # << >> /\ v[Len(v)] # "," THEN 1 ELSE 0)
  IN  [ j \in 1..n |->
          IF \E i \in 1..Len(v) : v[i] # "," /\ before(i) = j - 1
            THEN v[CHOOSE i \in 1..Len(v) : v[i] # "," /\ before(i) = j - 1]
            ELSE "" ]

\* a token that is neither "all" nor "none"
NotSkipped(t) == t \notin { "all", "none" }

\* what a token of category k stands for
Expansion(k, t) ==
  IF t = "default" THEN DescriptionSet(k) \cup TemplateSet(k)
  ELSE IF t = Aliases[k].description THEN DescriptionSet(k)
  ELSE IF t = Aliases[k].template THEN TemplateSet(k)
  ELSE { t }

\* C12: for every category resolved from a value other than "none" and
\* "all", the attribute set is the union of the expansions of the value's
\* tokens other than "all" and "none" ("default": both tables, the two
\* category aliases: one table each, any other token: itself), the
\* advertised list is those tokens in order, and the set lies within the
\* two tables if every such token is an alias or a name of the tables
C12_ListExpansion ==
  Resolved =>
    \A k \in 1..3 :
      AttributesValue(k) \notin { << "none" >>, << "all" >> } =>
        LET kept == SelectSeq(Fields(AttributesValue(k)), NotSkipped)
            tables == DescriptionSet(k) \cup TemplateSet(k)
        IN  /\ AttributeSet(k) = UNION { Expansion(k, kept[i]) : i \in 1..Len(kept) }
            /\ Advertised(PrivacyFields[k].advertised) = kept
            /\ (\A i \in 1..Len(kept) :
                   kept[i] \in { "default", Aliases[k].description, Aliases[k].template } \cup tables)
                 => AttributeSet(k) \subseteq tables

\* C12 witness: the subscription category was resolved from the list
\* "none,notify-events", of which only the second token counts
C12_Witness ==
  /\ Resolved
  /\ AttributesValue(3) = << "none", ",", "notify-events" >>
  /\ AttributeSet(3) = { "notify-events" }
  /\ Advertised("subscription-privacy-attributes") = << "notify-events" >>

\* the attribute set the resolver of category k makes of the value v
ResolvedFrom(k, v) ==
  LET c == [conf EXCEPT ![PrivacyFields[k].attrs] = Ptr(v)]
      r == CASE k = 1 -> add_document_privacy(<< >>, c)
             [] k = 2 -> add_job_privacy(<< >>, c)
             [] k = 3 -> add_subscription_privacy(<< >>, c)
  IN  IF r.array = NULL THEN {} ELSE BagToSet(Deref(r.array))

\* the three values C13 is about, for category k
DefaultForms(k) ==
  { << "default" >>,
    << Aliases[k].description, ",", Aliases[k].template >>,
    << Aliases[k].template, ",", Aliases[k].description >> }

\* C13: for every category, the attribute sets resolved from "default",
\* from "<category>-description,<category>-template" and from
\* "<category>-template,<category>-description" are the same set
C13_AliasEquivalence ==
  Resolved =>
    \A k \in 1..3 :
      AttributesValue(k) \in DefaultForms(k) =>
        \A v \in DefaultForms(k) : AttributeSet(k) = ResolvedFrom(k, v)

\* C13 witness: the document category was resolved from
\* "document-template,document-description"
C13_Witness ==
  /\ Resolved
  /\ AttributesValue(1) = << "document-template", ",", "document-description" >>
  /\ AttributeSet(1) = ResolvedFrom(1, << "default" >>)
  /\ "copies" \in AttributeSet(1)
  /\ "document-name" \in AttributeSet(1)

\* the name of the scope attribute of category k
ScopeAttribute(k) ==
  CASE k = 1 -> "document-privacy-scope"
    [] k = 2 -> "job-privacy-scope"
    [] k = 3 -> "subscription-privacy-scope"

\* C14: after resolution PrivacyAttributes holds, for every category, both
\* the advertised privacy-attributes value and the privacy-scope value
C14_AdvertisedAndScope ==
  Resolved =>
    \A k \in 1..3 :
      /\ Advertised(PrivacyFields[k].advertised) # << >>
      /\ Advertised(ScopeAttribute(k)) = << Deref(conf[PrivacyFields[k].scope]) >>

\* a step in which the load or the creation of a queue fails
FailureStep == pc \in { "load", "create" } /\ pc' # pc /\ failed' # failed

\* C15: a definition file whose load or queue creation fails is not
\* inserted into the registry, and the step that fails leaves the registry,
\* the entries still to read and the return value as they are and goes on
\* reading the directory; when serverLoadConfiguration returns after a
\* failure it returns 1, every definition file listed in the two directories
\* has been loaded, and the registry holds exactly the listed queues whose
\* load and creation succeeded
C15_FailureIsolation ==
  /\ [](/\ failed \cap RegisteredResources = {}
        /\ failed \cap created = {}
        /\ (pc = "return" /\ failed # {}) => ret = 1
        /\ (pc = "return" /\ ret = 1) =>
             /\ listed = created \cup failed
             /\ RegisteredResources = listed \ failed)
  /\ [][FailureStep =>
          /\ pc' = "read"
          /\ Printers' = Printers
          /\ unread' = unread
          /\ dir' = dir
          /\ ret' = ret]_vars

\* the string r begins with the string p
HasPrefix(r, p) == Len(r) >= Len(p) /\ SubSeq(r, 1, Len(p)) = p

\* C15 witness: serverLoadConfiguration returned 1 after a 2-D definition
\* file failed to load; a 2-D and a 3-D queue read after it are registered
C15_Witness ==
  /\ pc = "return" /\ ret = 1
  /\ \E r \in failed : HasPrefix(r, Prefix2D)
  /\ \E i, j \in 1..Len(Printers) :
       /\ HasPrefix(Printers[i].resource, Prefix2D)
       /\ HasPrefix(Printers[j].resource, Prefix3D)

\* the directives load_system has a branch for
KnownDirectives ==
  { "Authentication", "AuthAdminGroup", "AuthName", "AuthOperatorGroup",
    "AuthService", "AuthTestPassword", "AuthType", "DataDirectory",
    "DefaultPrinter", "DocumentPrivacyAttributes", "DocumentPrivacyScope",
    "Encryption", "JobPrivacyAttributes", "JobPrivacyScope", "KeepFiles",
    "Listen", "LogFile", "LogLevel", "MaxCompletedJobs", "MaxJobs",
    "SpoolDirectory", "SubscriptionPrivacyAttributes", "SubscriptionPrivacyScope" }

Known(name) == \E D \in KnownDirectives : StrCaseEq(name, D)

\* C16: a line whose directive is not known, with or without a value, is
\* only reported: load_system goes on with status 1 and the configuration
\* unchanged
C16_UnknownNeverAborts ==
  [][(ReadsLine /\ ~Known(line')) =>
       status' = 1 /\ conf' = conf /\ msg' = "Unknown directive"]_vars

\* C16 amended: a line whose directive is not known and which has a value
\* is only reported: load_system goes on with status 1 and the configuration
\* unchanged, and load_system never returns 0 at such a line; without a
\* value the line stops load_system with "Missing value", as any line does
C16_UnknownWithValue ==
  /\ [][(ReadsLine /\ ~Known(line')) =>
          /\ conf' = conf
          /\ value' # NULL => status' = 1 /\ msg' = "Unknown directive"
          /\ value' = NULL => status' = 0 /\ msg' = "Missing value"]_vars
  /\ []((sysret = 0 /\ file # << >>) =>
          ~(/\ ~Known(file[Len(file)].name)
            /\ file[Len(file)].value # NULL))

\* C16 witness: an unknown directive with a value was read, the MaxJobs
\* line after it took effect and load_system returned 1
C16_Witness ==
  /\ sysret = 1
  /\ Len(file) = 2
  /\ ~Known(file[1].name) /\ file[1].value # NULL
  /\ file[2] = Directive("MaxJobs", Ptr(<< "10" >>))
  /\ conf.MaxJobs = 10

\* the boolean directives: their flag and the words that switch it on and off
Booleans ==
  { [name |-> "Authentication", on |-> { "on", "yes" }, off |-> { "off", "no" }],
    [name |-> "KeepFiles", on |-> { "yes", "true", "on" }, off |-> { "no", "false", "off" }] }

\* C17: an Authentication or KeepFiles line whose value is one of the
\* directive's truthy or falsy words, in any case, sets the flag to 1 or 0;
\* any other value stops load_system at that line with status 0 and leaves
\* the flag as it was
C17_BooleanValidation ==
  [][\A B \in Booleans :
       (ReadsLine /\ StrCaseEq(line', B.name) /\ value' # NULL) =>
         LET v == Deref(value') IN
         IF \E w \in B.on : ValueCaseEq(v, w)
           THEN status' = 1 /\ conf'[B.name] = 1
         ELSE IF \E w \in B.off : ValueCaseEq(v, w)
           THEN status' = 1 /\ conf'[B.name] = 0
         ELSE status' = 0 /\ conf'[B.name] = conf[B.name]]_vars

\* how many tokens follow a keyword of a definition file, by its folded
\* name; no entry for a word that is not a keyword
Arity ==
  [ k \in { "authprintgroup", "authproxygroup", "command", "deviceuri",
            "outputformat", "make", "model", "strings" } |->
      IF k = "strings" THEN 2 ELSE 1 ]

\* a definition file read as statements, each a keyword with its tokens,
\* up to the first hard error: a word that is not a keyword, a keyword
\* short of a token at the end of the file, or a group keyword naming a
\* group that does not exist
RECURSIVE Statements(_)
Statements(ts) ==
  IF ts = << >> THEN [stmts |-> << >>, error |-> FALSE]
  ELSE LET kw == Fold(Head(ts)) IN
       IF kw \notin DOMAIN Arity THEN [stmts |-> << >>, error |-> TRUE]
       ELSE IF Len(ts) < 1 + Arity[kw] THEN [stmts |-> << >>, error |-> TRUE]
       ELSE IF kw \in { "authprintgroup", "authproxygroup" } /\ ts[2] \notin GroupDB
         THEN [stmts |-> << >>, error |-> TRUE]
       ELSE LET r == Statements(SubSeq(ts, Arity[kw] + 2, Len(ts)))
            IN  [stmts |-> << [kw |-> kw, args |-> SubSeq(ts, 2, Arity[kw] + 1)] >> \o r.stmts,
                 error |-> r.error]

\* the token callback reports a hard error somewhere in the file
HardError(f) == f # NULL /\ Statements(Deref(f)).error

\* the step in which serverLoadAttributes runs
LoadStep == pc = "load" /\ nloads' = nloads + 1

\* C18: when the token callback reports a hard error in a definition file,
\* serverLoadAttributes returns 0 with pinfo.attrs NULL, the step leaves the
\* registry as it is and goes on to the next directory entry, and the
\* file's resource is never registered, whatever was parsed before the error
C18_HardErrorAborts ==
  /\ [][(LoadStep /\ HardError(attrfile')) =>
          /\ pinfo'.attrs = NULL
          /\ pc' = "read"
          /\ Printers' = Printers
          /\ created' = created
          /\ make_resource(dir, Deref(dent)) \in failed']_vars
  /\ [](failed \cap RegisteredResources = {})

\* C18 witness: a file whose Command was parsed before an unknown keyword
\* was refused, and the 2-D directory was read to its end with nothing
\* registered
C18_Witness ==
  /\ pc = "print3d"
  /\ attrfile = Ptr(<< "Command", "/bin/x", "Bogus" >>)
  /\ pinfo.command = Ptr("/bin/x")
  /\ pinfo.attrs = NULL
  /\ failed # {}
  /\ Printers = << >>

\* the Strings statements of a definition file
IsStrings(st) == st.kw = "strings"

StringsOf(f) == SelectSeq(Statements(Deref(f)).stmts, IsStrings)

\* C20: after a definition file is loaded, pinfo.strings holds exactly one
\* entry for every language a Strings keyword of the file names, and its
\* file name is that of the last Strings keyword naming the language
C20_StringsPerLanguage ==
  (attrfile # NULL /\ pinfo.attrs # NULL) =>
    LET sts == StringsOf(attrfile) IN
    /\ \A i, j \in 1..Len(pinfo.strings) :
         i # j => pinfo.strings[i].lang # pinfo.strings[j].lang
    /\ \A i \in 1..Len(sts) :
         \E j \in 1..Len(pinfo.strings) : pinfo.strings[j].lang = sts[i].args[1]
    /\ \A j \in 1..Len(pinfo.strings) :
         \E i \in 1..Len(sts) :
           /\ sts[i].args = << pinfo.strings[j].lang, pinfo.strings[j].filename >>
           /\ \A m \in (i + 1)..Len(sts) : sts[m].args[1] # sts[i].args[1]

\* C19: attr_cb returns 0 exactly for the names of the ignore list and 1
\* for every other name, be it before the first entry, after the last, or
\* an entry with characters added or removed; the ignore list is in
\* strictly ascending order of strcmp
C19_AttrFilter ==
  /\ keep # 0 - 1 =>
       /\ keep \in { 0, 1 }
       /\ keep = 0 <=> \E i \in 1..Len(ignored) : ignored[i] = Deref(attr)
  /\ \A i, j \in 1..Len(ignored) :
       i < j => strcmp(chars(ignored[i]), chars(ignored[j])) < 0

\* C19 witness: "printer-statistics", which comes between two entries that
\* begin as it does, was kept
C19_Witness == attr = Ptr("printer-statistics") /\ keep = 1

\* the scope values the server defines
ScopeEnumeration == { << SERVER_SCOPE_ALL >>, << SERVER_SCOPE_DEFAULT >> }

\* C21: after finalization the privacy scope of every category is one of
\* the two scope values, all or default, whatever the scope directives of
\* system.conf contained
C21_ScopeEnumerated ==
  Resolved =>
    \A k \in 1..3 :
      /\ conf[PrivacyFields[k].scope] # NULL
      /\ Deref(conf[PrivacyFields[k].scope]) \in ScopeEnumeration

\* C22: with no queue registered serverFindPrinter returns NULL for every
\* resource, "/ipp/print" included, reads no field of an entry that does
\* not exist, and releases printer_mutex
C22_EmptyRegistrySafe ==
  Printers = << >> =>
    /\ ~crashed
    /\ \A t \in Finders :
         /\ tpc[t] # "fault"
         /\ HasResult(t) => match[t] = NULL
         /\ tpc[t] = "idle" => printer_mutex # t

\* the registered queue with the least resource in the order of strcmp
LeastRegistered ==
  CHOOSE p \in { Printers[i] : i \in 1..Len(Printers) } :
    \A i \in 1..Len(Printers) : strcmp(p.resource, Printers[i].resource) <= 0

\* C23: with two or more queues registered serverFindPrinter("/ipp/print")
\* returns the first entry of the registry, which is the queue with the
\* least resource, a 2-D queue whenever one is registered, whatever the
\* order in which the queues were discovered and whatever DefaultPrinter
\* names
C23_GenericIsFirst ==
  \A t \in Finders :
    (HasResult(t) /\ Len(Printers) >= 2 /\ Deref(resource[t]) = GenericResource) =>
      /\ match[t] = Ptr(Printers[1])
      /\ match[t] = Ptr(LeastRegistered)
      /\ \A i \in 2..Len(Printers) :
           strcmp(Deref(match[t]).resource, Printers[i].resource) < 0
      /\ (\E i \in 1..Len(Printers) : HasPrefix(Printers[i].resource, Prefix2D)) =>
           HasPrefix(Deref(match[t]).resource, Prefix2D)

\* C23 witness: DefaultPrinter names b, the queues a and b are registered
\* and "/ipp/print" was answered with a
C23_Witness ==
  \E t \in Finders :
    /\ tpc[t] = "idle" /\ resource[t] = Ptr(GenericResource)
    /\ conf.DefaultPrinter = Ptr(<< "b" >>)
    /\ Len(Printers) >= 2
    /\ Printers[2].name = << 98 >>
    /\ match[t] = Ptr(Printers[1])
    /\ Printers[1].name = << 97 >>

\* the values from which the job category takes in its whole template table
JobTemplateForms == { << "all" >>, << "default" >>, << "job-template" >> }

\* C24: the job attribute set resolved from "all", "default" or
\* "job-template" holds "job-accounting-sheets" and
\* "job-accounting-user-id" as two members, and no member that is two
\* attribute names written one after the other
C24_JobTemplateCovered ==
  (Resolved /\ AttributesValue(2) \in JobTemplateForms) =>
    LET names == AttributeSet(2) \cup { "job-accounting-sheets", "job-accounting-user-id" }
    IN  /\ "job-accounting-sheets" \in AttributeSet(2)
        /\ "job-accounting-user-id" \in AttributeSet(2)
        /\ \A a \in names, b \in names : (a \o b) \notin AttributeSet(2)

\* the lines of system.conf before the last one read
Before == SubSeq(file, 1, Len(file) - 1)

\* load_system has stopped at the last line read
Aborted == status = 0 /\ Len(file) > 0

\* C25: when load_system stops with failure at a line, the configuration
\* is the one the lines before it made, listeners included: the failing
\* line changes no field, the one it names included, and after it no line
\* is read and no field changes; while no line has failed every line read
\* has been applied
C25_PrefixApplied ==
  /\ [](Aborted => conf = load_system_lines(InitConf, Before))
  /\ []((status = 1 /\ nfinalize = 0) => conf = load_system_lines(InitConf, file))
  /\ [][ /\ (ReadsLine /\ status' = 0) =>
              /\ conf' = conf
              /\ file' = Append(file, Directive(line', value'))
         /\ Aborted => (conf' = conf /\ file' = file /\ nfinalize' = nfinalize)
       ]_vars

\* C25 witness: a Listen line created a listener, the Listen line after it
\* was refused, and load_system has returned with that one listener
C25_Witness ==
  /\ Aborted /\ pc = "return" /\ ret = 0
  /\ Len(file) = 2
  /\ StrCaseEq(file[1].name, "Listen") /\ StrCaseEq(file[2].name, "Listen")
  /\ msg = "Bad Listen value"
  /\ conf.Listeners = << [host |-> << "h" >>, port |-> 8631] >>

====
